---------------------------- MODULE Spec2Model ----------------------------
(***************************************************************************)
(* Model of sshm.  Package ssh: credential resolution, Connect /          *)
(* ConnectWithAuth / Close on a Connector, the connectivity probes and    *)
(* the interactive session driven by ConnectAndInteract.  Packages store, *)
(* config and tui: the host store and its file, the configuration loader, *)
(* main, the add / edit form, the App and its ListView.                   *)
(*                                                                         *)
(* Strings that the code inspects (paths, COLUMNS/LINES) are sequences of *)
(* components or characters; Go errors are sequences of messages, the     *)
(* outermost wrapper first, and the empty sequence is the nil error.      *)
(***************************************************************************)
EXTENDS Integers, Sequences, FiniteSets, TLC

VARIABLES
    aHost,      \* SpecAuth: the host record given to the resolver
    aEnv,       \* SpecAuth: the process environment the resolver runs in
    aOut,       \* SpecAuth: the resolver's result, NoResult before the call
    pc,         \* ConnectAndInteract: the statement the call is at
    connector,  \* ConnectAndInteract: its Connector, [client, config]
    defers,     \* ConnectAndInteract: the deferred calls, oldest first
    fds,        \* ConnectAndInteract: descriptors, [ssh, session, agent, dialed]
    ptyReq,     \* ConnectAndInteract: the arguments of session.RequestPty
    remote,     \* ConnectAndInteract: how the remote shell ended
    trace,      \* ConnectAndInteract: the stages executed, in order
    ret,        \* ConnectAndInteract: the returned error
    io,         \* ConnectAndInteract: the session's copy tasks and the output in flight
    cancel,     \* ConnectAndInteract: the caller has asked to cancel the session
    kConnector, \* SpecConn: the Connector the calls are made on
    kConns,     \* SpecConn: the SSH connections established, "open"/"closed"
    kAgent,     \* SpecConn: the agent sockets the calls left open
    kLast,      \* SpecConn: the last call, its arguments and what it did
    kCalls,     \* SpecConn: the number of calls made
    tCols,      \* SpecTerm: the value of COLUMNS
    tLines,     \* SpecTerm: the value of LINES
    tSize,      \* SpecTerm: what getTerminalSize returned, NoSize before the call
    sRun,       \* SpecStore: the process, "stopped" / "running" / "exited"
    sHosts,     \* SpecStore: FileStore.hosts, the host records in memory
    sFile,      \* SpecStore: the file at the default path, [kind, hosts]
    sLast,      \* SpecStore: the last call, its arguments and what it did
    sCalls,     \* SpecStore: the number of store and form calls made
    lApp,       \* SpecList: the App, [view, quitting]
    lView,      \* SpecList: the App's ListView, [hosts, filtered, filterText, cursor, filtering]
    lLast       \* SpecList: the last message: its key, its receiver, the ListView before

authVars == <<aHost, aEnv, aOut>>

caiVars == <<pc, connector, defers, fds, ptyReq, remote, trace, ret, io, cancel>>

connVars == <<kConnector, kConns, kAgent, kLast, kCalls>>

termVars == <<tCols, tLines, tSize>>

storeVars == <<sRun, sHosts, sFile, sLast, sCalls>>

listVars == <<lApp, lView, lLast>>

uiVars == <<termVars, storeVars, listVars>>

vars == <<aHost, aEnv, aOut, pc, connector, defers, fds, ptyReq, remote, trace, ret,
          io, cancel, kConnector, kConns, kAgent, kLast, kCalls,
          tCols, tLines, tSize, sRun, sHosts, sFile, sLast, sCalls,
          lApp, lView, lLast>>

(***************************************************************************)
(* Bounds                                                                  *)
(***************************************************************************)
\* largest number of signers an SSH agent holds
MaxAgentKeys == 2

(***************************************************************************)
(* Go values                                                               *)
(***************************************************************************)
Nil == <<>>

\* a nil *ssh.ClientConfig
NilConfig == [nil |-> TRUE]

NoResult == [none |-> TRUE]

\* fmt.Errorf(msg + ": %w", err)
Wrap(msg, err) == <<msg>> \o err

\* errors.New / fmt.Errorf without a wrapped error
Err(msg) == <<msg>>

(***************************************************************************)
(* AuthMethod                                                              *)
(***************************************************************************)
AuthMethodNone == 0
AuthMethodPassword == 1
AuthMethodKeyFile == 2
AuthMethodSSHAgent == 3

AuthMethods == {AuthMethodNone, AuthMethodPassword, AuthMethodKeyFile, AuthMethodSSHAgent}

(***************************************************************************)
(* Paths, the file system and the agent                                    *)
(***************************************************************************)
\* usr.HomeDir of user.Current(), as path components
HomeDir == <<"/", "home", "u">>

\* the defaultKeys literal of addDefaultKeysAuth
DefaultKeys ==
    << <<"~", ".ssh", "id_ed25519">>,
       <<"~", ".ssh", "id_rsa">>,
       <<"~", ".ssh", "id_ecdsa">>,
       <<"~", ".ssh", "id_dsa">> >>

\* values of models.Host.Identity: unset, home-relative, absolute
Identities == { <<>>, <<"~", ".ssh", "work">>, <<"/", "home", "u", ".ssh", "work">> }

\* the files the resolver can open
KeyFiles ==
    { HomeDir \o Tail(DefaultKeys[i]) : i \in 1..Len(DefaultKeys) }
        \cup { <<"/", "home", "u", ".ssh", "work">> }

FileStates == {"missing", "corrupt", "ok"}

\* SSH_AUTH_SOCK unset; set but the dial fails; the agent answers Signers()
\* with an error; or the agent answers with n signers
AgentStates ==
    { <<"unset">>, <<"dialfail">>, <<"signerr">> }
        \cup { <<"keys", n>> : n \in 0..MaxAgentKeys }

Envs ==
    [ agent : AgentStates,
      userOK : BOOLEAN,
      files : [KeyFiles -> FileStates] ]

\* models.Host
Hosts ==
    [ Host : {"", "203.0.113.5"},
      Port : {0, 22, 2222},
      User : {"", "admin"},
      Identity : Identities ]

\* the hosts the resolver is applied to on its own
AuthHosts == {h \in Hosts : h.Host # "" /\ h.Port = 22}

\* expandPath: "~/" + rest becomes HomeDir joined with rest
expandPath(path, env) ==
    IF Len(path) > 1 /\ path[1] = "~"
    THEN IF ~env.userOK
         THEN [path |-> <<>>, err |-> Err("user: Current not implemented")]
         ELSE [path |-> HomeDir \o Tail(path), err |-> Nil]
    ELSE [path |-> path, err |-> Nil]

\* os.ReadFile
ReadFile(path, env) ==
    IF path \in KeyFiles /\ env.files[path] # "missing"
    THEN [data |-> [file |-> path, pem |-> env.files[path]], err |-> Nil]
    ELSE [data |-> Nil, err |-> Err("no such file or directory")]

\* ssh.ParsePrivateKey
ParsePrivateKey(data) ==
    IF data.pem = "ok"
    THEN [signer |-> [src |-> "file", key |-> data.file, idx |-> 0], err |-> Nil]
    ELSE [signer |-> Nil, err |-> Err("ssh: no key found")]

\* ssh.PublicKeys(signers...)
PublicKeys(signers) == [method |-> "publickey", signers |-> signers]

\* agent.Client.Signers()
AgentSigners(env) ==
    IF env.agent[1] = "keys"
    THEN [signers |-> [i \in 1..env.agent[2] |-> [src |-> "agent", key |-> <<>>, idx |-> i]],
          err |-> Nil]
    ELSE [signers |-> <<>>, err |-> Err("agent: failure")]

(***************************************************************************)
(* I/O events of a build, in the order the code performs them              *)
(***************************************************************************)
EvGetenv(ok) == [op |-> "agent.getenv", path |-> <<>>, ok |-> ok]
EvAgentDial(ok) == [op |-> "agent.dial", path |-> <<>>, ok |-> ok]
EvAgentSigners(ok) == [op |-> "agent.signers", path |-> <<>>, ok |-> ok]
EvExpand(p, ok) == [op |-> "expand", path |-> p, ok |-> ok]
EvRead(p, ok) == [op |-> "read", path |-> p, ok |-> ok]
EvParse(p, ok) == [op |-> "parse", path |-> p, ok |-> ok]

(***************************************************************************)
(* Credential resolution (the connector with agent support)                *)
(*                                                                         *)
(* A build step yields [config, err, ops, conns]: the *ssh.ClientConfig    *)
(* (Nil for a nil pointer), the error, the I/O events performed and the    *)
(* number of agent sockets it opened (the code never closes one).          *)
(***************************************************************************)
Step(config, err, ops, conns) ==
    [config |-> config, err |-> err, ops |-> ops, conns |-> conns]

\* NewClientConfig with a callback that checks the key against known hosts
NewClientConfigKnownHosts(host) ==
    [User |-> host.User, Auth |-> <<>>, HostKeyCallback |-> "KnownHosts", Timeout |-> 0]

\* &ssh.ClientConfig{User: host.User, Auth: []ssh.AuthMethod{},
\*                   HostKeyCallback: ssh.InsecureIgnoreHostKey()}
\* the literal sets no Timeout: the field keeps its zero value, no timeout
NewClientConfig(host) ==
    [User |-> host.User, Auth |-> <<>>, HostKeyCallback |-> "InsecureIgnoreHostKey",
     Timeout |-> 0]

\* config.Auth = append(config.Auth, m)
AppendAuth(config, m) == [config EXCEPT !.Auth = Append(@, m)]

addSSHAgentAuth(config, env) ==
    IF env.agent[1] = "unset"
    THEN Step(config, Err("SSH_AUTH_SOCK not set"), <<EvGetenv(FALSE)>>, 0)
    ELSE IF env.agent[1] = "dialfail"
    THEN Step(config, Wrap("failed to connect to SSH agent", Err("connection refused")),
              <<EvGetenv(TRUE), EvAgentDial(FALSE)>>, 0)
    ELSE LET s == AgentSigners(env) IN
         IF s.err # Nil \/ Len(s.signers) = 0
         THEN Step(config, Wrap("no keys available from SSH agent", s.err),
                   <<EvGetenv(TRUE), EvAgentDial(TRUE), EvAgentSigners(FALSE)>>, 1)
         ELSE Step(AppendAuth(config, PublicKeys(s.signers)), Nil,
                   <<EvGetenv(TRUE), EvAgentDial(TRUE), EvAgentSigners(TRUE)>>, 1)

addKeyFileAuth(config, keyPath, env) ==
    LET x == expandPath(keyPath, env) IN
    IF x.err # Nil
    THEN Step(config, Wrap("failed to expand identity path", x.err),
              <<EvExpand(keyPath, FALSE)>>, 0)
    ELSE LET f == ReadFile(x.path, env) IN
    IF f.err # Nil
    THEN Step(config, Wrap("failed to read identity file", f.err),
              <<EvExpand(keyPath, TRUE), EvRead(x.path, FALSE)>>, 0)
    ELSE LET k == ParsePrivateKey(f.data) IN
    IF k.err # Nil
    THEN Step(config, Wrap("failed to parse private key", k.err),
              <<EvExpand(keyPath, TRUE), EvRead(x.path, TRUE), EvParse(x.path, FALSE)>>, 0)
    ELSE Step(AppendAuth(config, PublicKeys(<<k.signer>>)), Nil,
              <<EvExpand(keyPath, TRUE), EvRead(x.path, TRUE), EvParse(x.path, TRUE)>>, 0)

\* defaultKeyTry that keeps only the first key found: a later key is not
\* appended once config.Auth holds an entry
defaultKeyTrySingle(config, keyPath, env) ==
    LET x == expandPath(keyPath, env) IN
    IF x.err # Nil
    THEN Step(config, Nil, <<EvExpand(keyPath, FALSE)>>, 0)
    ELSE LET f == ReadFile(x.path, env) IN
    IF f.err # Nil
    THEN Step(config, Nil, <<EvExpand(keyPath, TRUE), EvRead(x.path, FALSE)>>, 0)
    ELSE LET k == ParsePrivateKey(f.data) IN
    IF k.err # Nil
    THEN Step(config, Nil,
              <<EvExpand(keyPath, TRUE), EvRead(x.path, TRUE), EvParse(x.path, FALSE)>>, 0)
    ELSE Step(IF Len(config.Auth) = 0 THEN AppendAuth(config, PublicKeys(<<k.signer>>))
              ELSE config, Nil,
              <<EvExpand(keyPath, TRUE), EvRead(x.path, TRUE), EvParse(x.path, TRUE)>>, 0)

\* the body of "for _, keyPath := range defaultKeys" for one keyPath: the
\* config and the events after it; every failure is a continue
defaultKeyTry(config, keyPath, env) ==
    LET x == expandPath(keyPath, env) IN
    IF x.err # Nil
    THEN Step(config, Nil, <<EvExpand(keyPath, FALSE)>>, 0)
    ELSE LET f == ReadFile(x.path, env) IN
    IF f.err # Nil
    THEN Step(config, Nil, <<EvExpand(keyPath, TRUE), EvRead(x.path, FALSE)>>, 0)
    ELSE LET k == ParsePrivateKey(f.data) IN
    IF k.err # Nil
    THEN Step(config, Nil,
              <<EvExpand(keyPath, TRUE), EvRead(x.path, TRUE), EvParse(x.path, FALSE)>>, 0)
    ELSE Step(AppendAuth(config, PublicKeys(<<k.signer>>)), Nil,
              <<EvExpand(keyPath, TRUE), EvRead(x.path, TRUE), EvParse(x.path, TRUE)>>, 0)

\* defaultKeysLoop with break in place of continue: the first failing path
\* ends the loop
RECURSIVE defaultKeysLoopBreak(_, _, _, _)
defaultKeysLoopBreak(i, config, ops, env) ==
    IF i > Len(DefaultKeys)
    THEN Step(config, Nil, ops, 0)
    ELSE LET t == defaultKeyTry(config, DefaultKeys[i], env) IN
         IF t.ops[Len(t.ops)].ok
         THEN defaultKeysLoopBreak(i + 1, t.config, ops \o t.ops, env)
         ELSE Step(t.config, Nil, ops \o t.ops, 0)

\* the range loop from index i on
RECURSIVE defaultKeysLoop(_, _, _, _)
defaultKeysLoop(i, config, ops, env) ==
    IF i > Len(DefaultKeys)
    THEN Step(config, Nil, ops, 0)
    ELSE LET t == defaultKeyTry(config, DefaultKeys[i], env) IN
         defaultKeysLoop(i + 1, t.config, ops \o t.ops, env)

addDefaultKeysAuth(config, env) ==
    LET r == defaultKeysLoop(1, config, <<>>, env) IN
    IF Len(r.config.Auth) = 0
    THEN [r EXCEPT !.err = Err("no authentication method available")]
    ELSE r

\* the tail of buildClientConfigWithAuth: a nil config with the error of
\* the add step, or the len(config.Auth) == 0 check
finishConfig(r) ==
    IF r.err # Nil THEN [r EXCEPT !.config = NilConfig]
    ELSE IF Len(r.config.Auth) = 0
    THEN [r EXCEPT !.config = NilConfig, !.err = Err("no authentication method available")]
    ELSE r

\* buildClientConfigWithAuth with the password case treated as a key-file
\* request
buildClientConfigWithAuthPasswordAsKey(host, auth, env) ==
    LET config == NewClientConfig(host) IN
    CASE auth = AuthMethodSSHAgent ->
            finishConfig(addSSHAgentAuth(config, env))
      [] auth \in {AuthMethodKeyFile, AuthMethodNone, AuthMethodPassword} ->
            IF host.Identity # <<>>
            THEN finishConfig(addKeyFileAuth(config, host.Identity, env))
            ELSE finishConfig(addDefaultKeysAuth(config, env))
      [] OTHER -> finishConfig(Step(config, Nil, <<>>, 0))

buildClientConfigWithAuth(host, auth, env) ==
    LET config == NewClientConfig(host) IN
    CASE auth = AuthMethodPassword ->
            Step(config, Err("password authentication not implemented"), <<>>, 0)
      [] auth = AuthMethodSSHAgent ->
            finishConfig(addSSHAgentAuth(config, env))
      [] auth \in {AuthMethodKeyFile, AuthMethodNone} ->
            IF host.Identity # <<>>
            THEN finishConfig(addKeyFileAuth(config, host.Identity, env))
            ELSE finishConfig(addDefaultKeysAuth(config, env))
      [] OTHER -> finishConfig(Step(config, Nil, <<>>, 0))

\* ResolveOrder with the key file tried before the agent
ResolveOrderKeyFirst == <<AuthMethodKeyFile, AuthMethodSSHAgent>>

\* methods := []AuthMethod{AuthMethodSSHAgent, AuthMethodKeyFile}
ResolveOrder == <<AuthMethodSSHAgent, AuthMethodKeyFile>>

\* "for _, method := range methods" from index i on; ops and conns are
\* those of the attempts already made
RECURSIVE resolveLoop(_, _, _, _, _, _)
resolveLoop(methods, i, host, env, ops, conns) ==
    IF i > Len(methods)
    THEN Step(NilConfig, Err("no authentication method available"), ops, conns)
    ELSE LET r == buildClientConfigWithAuth(host, methods[i], env) IN
         IF r.err = Nil /\ Len(r.config.Auth) > 0
         THEN Step(r.config, Nil, ops \o r.ops, conns + r.conns)
         ELSE resolveLoop(methods, i + 1, host, env, ops \o r.ops, conns + r.conns)

buildClientConfig(host, env) ==
    resolveLoop(ResolveOrder, 1, host, env, <<>>, 0)

(***************************************************************************)
(* Credential resolution (the earlier connector, key files only)           *)
(***************************************************************************)
RECURSIVE earlierDefaultKeysLoop(_, _, _, _)
earlierDefaultKeysLoop(i, config, ops, env) ==
    IF i > Len(DefaultKeys)
    THEN Step(config, Nil, ops, 0)
    ELSE LET x == expandPath(DefaultKeys[i], env)
             f == ReadFile(x.path, env)
             k == ParsePrivateKey(f.data)
             e1 == <<EvExpand(DefaultKeys[i], x.err = Nil)>>
             e2 == e1 \o <<EvRead(x.path, f.err = Nil)>>
             e3 == e2 \o <<EvParse(x.path, k.err = Nil)>>
         IN  IF x.err # Nil THEN earlierDefaultKeysLoop(i + 1, config, ops \o e1, env)
             ELSE IF f.err # Nil THEN earlierDefaultKeysLoop(i + 1, config, ops \o e2, env)
             ELSE IF k.err # Nil THEN earlierDefaultKeysLoop(i + 1, config, ops \o e3, env)
             ELSE earlierDefaultKeysLoop(i + 1, AppendAuth(config, PublicKeys(<<k.signer>>)),
                                         ops \o e3, env)

earlierBuildClientConfig(host, env) ==
    LET config == NewClientConfig(host) IN
    IF host.Identity # <<>>
    THEN LET r == addKeyFileAuth(config, host.Identity, env) IN
         IF r.err # Nil THEN [r EXCEPT !.config = NilConfig] ELSE r
    ELSE LET r == earlierDefaultKeysLoop(1, config, <<>>, env) IN
         IF Len(r.config.Auth) = 0
         THEN [r EXCEPT !.config = NilConfig, !.err = Err("no authentication method available")]
         ELSE r

(***************************************************************************)
(* Connector                                                               *)
(***************************************************************************)
\* a nil *ssh.Client
NilClient == [nil |-> TRUE]

\* NewConnector: &Connector{}
NewConnector == [client |-> NilClient, config |-> NilConfig]

\* fmt.Sprintf("%s:%d", host.Host, host.Port)
Addr(host, port) == <<host, ":", port>>

\* what the peer of ssh.Dial("tcp", addr, config) can do: the TCP dial fails
\* ("unreachable"); the handshake or the authentication fails and the
\* library closes the socket ("handshake"); the peer accepts the TCP
\* connection and then stays silent ("hang": the library sets no deadline on
\* the handshake, and config.Timeout bounds the TCP dial only); the server
\* presents a host key the client has never seen and is otherwise fine
\* ("newkey"); or everything succeeds ("ok").  Nothing listens on TCP port 0.
DialOutcomes(addr) ==
    IF addr[3] = 0 THEN {"unreachable"}
    ELSE {"unreachable", "handshake", "hang", "newkey", "ok"}

\* what config.HostKeyCallback makes of the server's key
HostKeyVerdict(config, dial) ==
    IF dial = "newkey"
    THEN IF config.HostKeyCallback = "InsecureIgnoreHostKey" THEN "ok" ELSE "hostkey"
    ELSE dial

DialErr(dial) ==
    IF dial = "unreachable" THEN Err("dial tcp: connection refused")
    ELSE IF dial = "hostkey" THEN Wrap("ssh: handshake failed", Err("host key rejected"))
    ELSE Err("ssh: handshake failed")

\* dialWith assigning c.config before the dial and dropping the client when
\* the dial fails
dialWithEarlyAssign(c, host, b, dial, id) ==
    IF b.err # Nil
    THEN [c |-> c, err |-> Wrap("failed to build client config", b.err),
          dialed |-> <<>>, agent |-> b.conns, opened |-> {}, ops |-> b.ops,
          bound |-> 0, hung |-> FALSE]
    ELSE LET addr == Addr(host.Host, host.Port)
             verdict == HostKeyVerdict(b.config, dial)
         IN
         IF verdict = "hang"
         THEN [c |-> c, err |-> Nil,
               dialed |-> <<addr>>, agent |-> b.conns, opened |-> {}, ops |-> b.ops,
               bound |-> b.config.Timeout, hung |-> TRUE]
         ELSE IF verdict # "ok"
         THEN [c |-> [client |-> NilClient, config |-> b.config],
               err |-> Wrap("failed to connect", DialErr(verdict)),
               dialed |-> <<addr>>, agent |-> b.conns, opened |-> {}, ops |-> b.ops,
               bound |-> b.config.Timeout, hung |-> FALSE]
         ELSE [c |-> [client |-> [id |-> id, addr |-> addr], config |-> b.config],
               err |-> Nil, dialed |-> <<addr>>, agent |-> b.conns, opened |-> {id},
               ops |-> b.ops, bound |-> b.config.Timeout, hung |-> FALSE]

\* dialWith storing, on success, the connector's previous configuration with
\* the new Auth entries appended to it instead of the configuration just
\* built
dialWithReuse(c, host, b, dial, id) ==
    IF b.err # Nil
    THEN [c |-> c, err |-> Wrap("failed to build client config", b.err),
          dialed |-> <<>>, agent |-> b.conns, opened |-> {}, ops |-> b.ops,
          bound |-> 0, hung |-> FALSE]
    ELSE LET addr == Addr(host.Host, host.Port)
             verdict == HostKeyVerdict(b.config, dial)
             kept == IF c.config = NilConfig THEN b.config
                     ELSE [c.config EXCEPT !.Auth = @ \o b.config.Auth]
         IN
         IF verdict = "hang"
         THEN [c |-> c, err |-> Nil,
               dialed |-> <<addr>>, agent |-> b.conns, opened |-> {}, ops |-> b.ops,
               bound |-> b.config.Timeout, hung |-> TRUE]
         ELSE IF verdict # "ok"
         THEN [c |-> c, err |-> Wrap("failed to connect", DialErr(verdict)),
               dialed |-> <<addr>>, agent |-> b.conns, opened |-> {}, ops |-> b.ops,
               bound |-> b.config.Timeout, hung |-> FALSE]
         ELSE [c |-> [client |-> [id |-> id, addr |-> addr], config |-> kept],
               err |-> Nil, dialed |-> <<addr>>, agent |-> b.conns, opened |-> {id},
               ops |-> b.ops, bound |-> b.config.Timeout, hung |-> FALSE]

\* the rest of Connect / ConnectWithAuth once the config b is built: the
\* connector afterwards, the error, the addresses dialed, the agent sockets
\* and SSH connections opened, the I/O events of the build, the time bound
\* handed to the dial (config.Timeout, 0 for none) and whether the call is
\* still blocked in ssh.Dial.  id names the connection a successful dial
\* returns.
dialWith(c, host, b, dial, id) ==
    IF b.err # Nil
    THEN [c |-> c, err |-> Wrap("failed to build client config", b.err),
          dialed |-> <<>>, agent |-> b.conns, opened |-> {}, ops |-> b.ops,
          bound |-> 0, hung |-> FALSE]
    ELSE LET addr == Addr(host.Host, host.Port)
             verdict == HostKeyVerdict(b.config, dial)
         IN
         IF verdict = "hang"
         THEN [c |-> c, err |-> Nil,
               dialed |-> <<addr>>, agent |-> b.conns, opened |-> {}, ops |-> b.ops,
               bound |-> b.config.Timeout, hung |-> TRUE]
         ELSE IF verdict # "ok"
         THEN [c |-> c, err |-> Wrap("failed to connect", DialErr(verdict)),
               dialed |-> <<addr>>, agent |-> b.conns, opened |-> {}, ops |-> b.ops,
               bound |-> b.config.Timeout, hung |-> FALSE]
         ELSE [c |-> [client |-> [id |-> id, addr |-> addr], config |-> b.config],
               err |-> Nil, dialed |-> <<addr>>, agent |-> b.conns, opened |-> {id},
               ops |-> b.ops, bound |-> b.config.Timeout, hung |-> FALSE]

\* (c *Connector) Connect(host)
Connect(c, host, env, dial, id) ==
    dialWith(c, host, buildClientConfig(host, env), dial, id)

\* (c *Connector) ConnectWithAuth(host, auth)
ConnectWithAuth(c, host, auth, env, dial, id) ==
    dialWith(c, host, buildClientConfigWithAuth(host, auth, env), dial, id)

\* (c *Connector) Close(): the connections it closes
Close(c) == IF c.client # NilClient THEN {c.client.id} ELSE {}

\* (c *Connector) IsConnected()
IsConnected(c) == c.client # NilClient

(***************************************************************************)
(* Terminal size                                                           *)
(***************************************************************************)
Digits == {"0", "1", "2", "3", "4", "5", "6", "7", "8", "9"}

DigitVal(ch) ==
    CASE ch = "0" -> 0 [] ch = "1" -> 1 [] ch = "2" -> 2 [] ch = "3" -> 3
      [] ch = "4" -> 4 [] ch = "5" -> 5 [] ch = "6" -> 6 [] ch = "7" -> 7
      [] ch = "8" -> 8 [] ch = "9" -> 9

RECURSIVE DigitsVal(_, _)
DigitsVal(str, acc) ==
    IF str = <<>> THEN acc ELSE DigitsVal(Tail(str), acc * 10 + DigitVal(str[1]))

\* strconv.Atoi on a string of characters: an optional sign, then digits
Atoi(str) ==
    LET signed == str # <<>> /\ str[1] \in {"+", "-"}
        body == IF signed THEN Tail(str) ELSE str
    IN  IF body = <<>> \/ \E i \in 1..Len(body) : body[i] \notin Digits
        THEN [val |-> 0, ok |-> FALSE]
        ELSE [val |-> IF signed /\ str[1] = "-" THEN 0 - DigitsVal(body, 0)
                      ELSE DigitsVal(body, 0),
              ok |-> TRUE]

\* values of the COLUMNS and LINES environment variables
TermStrings ==
    { <<>>, <<"x">>, <<"1", "0", "0">>, <<"4", "0">> }

\* getTerminalSizeImpl taking each variable on its own: a COLUMNS that
\* parses is used even when LINES does not
getTerminalSizeImplEach(columns, lines) ==
    [width |-> IF columns # <<>> /\ Atoi(columns).ok THEN Atoi(columns).val ELSE 80,
     height |-> IF lines # <<>> /\ Atoi(lines).ok THEN Atoi(lines).val ELSE 24,
     err |-> Nil]

getTerminalSizeImpl(columns, lines) ==
    IF columns # <<>> /\ lines # <<>> /\ Atoi(columns).ok /\ Atoi(lines).ok
    THEN [width |-> Atoi(columns).val, height |-> Atoi(lines).val, err |-> Nil]
    ELSE [width |-> 80, height |-> 24, err |-> Nil]

getTerminalSize(columns, lines) ==
    LET r == getTerminalSizeImpl(columns, lines) IN
    IF r.err # Nil THEN [width |-> 80, height |-> 24]
    ELSE [width |-> r.width, height |-> r.height]

\* ssh.TerminalModes{ssh.ECHO: 1, ssh.TTY_OP_ISPEED: 14400, ssh.TTY_OP_OSPEED: 14400}
TerminalModes == [ECHO |-> 1, TTY_OP_ISPEED |-> 14400, TTY_OP_OSPEED |-> 14400]

(***************************************************************************)
(* ConnectAndInteract(host), statement by statement                        *)
(***************************************************************************)
\* largest exit status the remote shell ends with
MaxExitStatus == 7

\* how the remote side ends the session: exit with a status, or the
\* channel goes away without one
RemoteEnds ==
    { [kind |-> "exit", status |-> n] : n \in 0..MaxExitStatus }
        \cup { [kind |-> "lost", status |-> 0] }

\* session.Wait(): nil for status 0, *ssh.ExitError carrying the status
\* otherwise, *ssh.ExitMissingError when the channel closed without one
WaitResult(end) ==
    IF end.kind = "lost" THEN <<"wait: remote command exited without exit status">>
    ELSE IF end.status = 0 THEN Nil
    ELSE <<"Process exited with status", ToString(end.status)>>

\* largest number of bytes the remote shell writes
MaxOutput == 1

\* the three copy tasks session.Shell() starts for the bound Stdin, Stdout
\* and Stderr
CopyTasks == {"stdin", "stdout", "stderr"}

\* no copy task yet, nothing written by the remote shell (sent), nothing
\* delivered to os.Stdout (got)
IoIdle == [stdin |-> "idle", stdout |-> "idle", stderr |-> "idle", sent |-> 0, got |-> 0]

IoStarted == [stdin |-> "copying", stdout |-> "copying", stderr |-> "copying",
              sent |-> 0, got |-> 0]

AllCopied(i) == \A t \in CopyTasks : i[t] = "done"

NoPty == [none |-> TRUE]
NotReturned == [returned |-> FALSE, err |-> Nil]
NoRemote == [none |-> TRUE]

Ev(stage, ok) == [stage |-> stage, ok |-> ok]

CaiIdle ==
    /\ pc = "idle"
    /\ connector = NewConnector
    /\ defers = <<>>
    /\ fds = [ssh |-> "none", session |-> "none", agent |-> 0, dialed |-> <<>>]
    /\ ptyReq = NoPty
    /\ remote = NoRemote
    /\ trace = <<>>
    /\ ret = NotReturned
    /\ io = IoIdle
    /\ cancel = FALSE

\* return err: the deferred calls run next
Return(err) ==
    /\ ret' = [returned |-> TRUE, err |-> err]
    /\ pc' = "return"

\* connector := NewConnector(); defer connector.Close();
\* if err := connector.Connect(host); err != nil { return err }
CAI_Connect ==
    /\ pc = "idle"
    /\ \E host \in Hosts, env \in Envs :
       \E dial \in DialOutcomes(Addr(host.Host, host.Port)) :
       \E r \in {Connect(NewConnector, host, env, dial, 1)} :
          /\ connector' = r.c
          /\ defers' = <<"connector.Close">>
          /\ fds' = [fds EXCEPT !.agent = r.agent, !.dialed = r.dialed,
                                !.ssh = IF r.opened # {} THEN "open" ELSE "none"]
          /\ IF r.hung
             THEN pc' = "blocked" /\ UNCHANGED <<trace, ret>>
             ELSE /\ trace' = Append(trace, Ev("connect", r.err = Nil))
                  /\ IF r.err # Nil
                     THEN Return(r.err)
                     ELSE pc' = "NewSession" /\ ret' = ret
    /\ UNCHANGED <<ptyReq, remote, io, cancel>>

\* CAI_NewSession with the PTY request left out: the shell is started on
\* the fresh session
CAI_NewSessionSkipPty ==
    /\ pc = "NewSession"
    /\ \E ok \in BOOLEAN :
          /\ trace' = Append(trace, Ev("NewSession", ok))
          /\ IF ok
             THEN /\ fds' = [fds EXCEPT !.session = "open"]
                  /\ defers' = Append(defers, "session.Close")
                  /\ pc' = "Shell" /\ ret' = ret
             ELSE /\ Return(Wrap("failed to create session", Err("ssh: rejected")))
                  /\ UNCHANGED <<fds, defers>>
    /\ UNCHANGED <<connector, ptyReq, remote, io, cancel>>

\* session, err := connector.client.NewSession(); defer session.Close()
CAI_NewSession ==
    /\ pc = "NewSession"
    /\ \E ok \in BOOLEAN :
          /\ trace' = Append(trace, Ev("NewSession", ok))
          /\ IF ok
             THEN /\ fds' = [fds EXCEPT !.session = "open"]
                  /\ defers' = Append(defers, "session.Close")
                  /\ pc' = "RequestPty" /\ ret' = ret
             ELSE /\ Return(Wrap("failed to create session", Err("ssh: rejected")))
                  /\ UNCHANGED <<fds, defers>>
    /\ UNCHANGED <<connector, ptyReq, remote, io, cancel>>

\* CAI_RequestPty without the return on failure: the shell is started
\* without a PTY
CAI_RequestPtyNoReturn ==
    /\ pc = "RequestPty"
    /\ \E columns \in TermStrings, lines \in TermStrings, ok \in BOOLEAN :
          LET size == getTerminalSize(columns, lines) IN
          /\ ptyReq' = [term |-> "xterm", h |-> size.height, w |-> size.width,
                        modes |-> TerminalModes]
          /\ trace' = Append(trace, Ev("RequestPty", ok))
          /\ pc' = "Shell" /\ ret' = ret
    /\ UNCHANGED <<connector, defers, fds, remote, io, cancel>>

\* width, height := getTerminalSize();
\* err = session.RequestPty("xterm", height, width, modes)
CAI_RequestPty ==
    /\ pc = "RequestPty"
    /\ \E columns \in TermStrings, lines \in TermStrings, ok \in BOOLEAN :
          LET size == getTerminalSize(columns, lines) IN
          /\ ptyReq' = [term |-> "xterm", h |-> size.height, w |-> size.width,
                        modes |-> TerminalModes]
          /\ trace' = Append(trace, Ev("RequestPty", ok))
          /\ IF ok
             THEN pc' = "Shell" /\ ret' = ret
             ELSE Return(Wrap("request for pseudo terminal failed", Err("ssh: rejected")))
    /\ UNCHANGED <<connector, defers, fds, remote, io, cancel>>

\* err = session.Shell(): a started session copies session.Stdin to the
\* channel and the channel to session.Stdout and session.Stderr, one task
\* each
CAI_Shell ==
    /\ pc = "Shell"
    /\ \E ok \in BOOLEAN :
          /\ trace' = Append(trace, Ev("Shell", ok))
          /\ IF ok
             THEN pc' = "Wait" /\ ret' = ret /\ io' = IoStarted
             ELSE /\ Return(Wrap("failed to start shell", Err("ssh: rejected")))
                  /\ io' = io
    /\ UNCHANGED <<connector, defers, fds, ptyReq, remote, cancel>>

\* the remote shell writes a byte.  Under the PTY requested before the
\* shell its stdout and stderr both arrive as channel data
IO_RemoteWrite ==
    /\ pc = "Wait"
    /\ remote = NoRemote
    /\ io.sent < MaxOutput
    /\ io' = [io EXCEPT !.sent = @ + 1]
    /\ UNCHANGED <<pc, connector, defers, fds, ptyReq, remote, trace, ret, cancel>>

\* session.Stdout = os.Stdout: the stdout task delivers the next byte
IO_CopyOut ==
    /\ pc = "Wait"
    /\ io.stdout = "copying"
    /\ io.got < io.sent
    /\ io' = [io EXCEPT !.got = @ + 1]
    /\ UNCHANGED <<pc, connector, defers, fds, ptyReq, remote, trace, ret, cancel>>

\* the remote side ends the session: the exit status (if any) arrives and
\* the channel is closed behind the data already written
IO_RemoteEnd ==
    /\ pc = "Wait"
    /\ remote = NoRemote
    /\ \E end \in RemoteEnds : remote' = end
    /\ UNCHANGED <<pc, connector, defers, fds, ptyReq, trace, ret, io, cancel>>

\* a copy task observes the closure and ends: the stdout task once it has
\* delivered everything that was written before the channel closed
IO_TaskDone ==
    /\ pc = "Wait"
    /\ remote # NoRemote
    /\ \E t \in CopyTasks :
          /\ io[t] = "copying"
          /\ t = "stdout" => io.got = io.sent
          /\ io' = [io EXCEPT ![t] = "done"]
    /\ UNCHANGED <<pc, connector, defers, fds, ptyReq, remote, trace, ret, cancel>>

\* the caller wants the session cancelled.  ConnectAndInteract(host) takes
\* no context and no channel and installs no handler: the request reaches
\* nothing the call reads
CAI_Cancel ==
    /\ pc = "Wait"
    /\ remote = NoRemote
    /\ ~cancel
    /\ cancel' = TRUE
    /\ UNCHANGED <<pc, connector, defers, fds, ptyReq, remote, trace, ret, io>>

\* CAI_Wait with the result of session.Wait() dropped: return nil
CAI_WaitDropped ==
    /\ pc = "Wait"
    /\ remote # NoRemote
    /\ AllCopied(io)
    /\ trace' = Append(trace, Ev("Wait", remote.kind = "exit"))
    /\ Return(Nil)
    /\ UNCHANGED <<connector, defers, fds, ptyReq, remote, io, cancel>>

\* CAI_Wait returning as soon as the remote side has ended, whatever the
\* copy tasks are doing
CAI_WaitNoCopies ==
    /\ pc = "Wait"
    /\ remote # NoRemote
    /\ trace' = Append(trace, Ev("Wait", remote.kind = "exit"))
    /\ Return(WaitResult(remote))
    /\ UNCHANGED <<connector, defers, fds, ptyReq, remote, io, cancel>>

\* return session.Wait(): Wait returns when the remote side has ended and
\* the copy tasks of Stdin, Stdout and Stderr have ended
CAI_Wait ==
    /\ pc = "Wait"
    /\ remote # NoRemote
    /\ AllCopied(io)
    /\ trace' = Append(trace, Ev("Wait", remote.kind = "exit"))
    /\ Return(WaitResult(remote))
    /\ UNCHANGED <<connector, defers, fds, ptyReq, remote, io, cancel>>

\* NextDeferred running the deferred calls oldest first
NextDeferredFifo(ds) == 1

\* the deferred call that runs next: the one deferred last
NextDeferred(ds) == Len(ds)

\* one deferred call runs: session.Close() or connector.Close()
CAI_RunDeferred ==
    /\ pc = "return"
    /\ defers # <<>>
    /\ LET k == NextDeferred(defers)
           call == defers[k]
       IN  /\ defers' = [i \in 1..(Len(defers) - 1) |->
                            IF i < k THEN defers[i] ELSE defers[i + 1]]
           /\ trace' = Append(trace, Ev(call, TRUE))
           /\ IF call = "session.Close"
              THEN fds' = [fds EXCEPT !.session = "closed"]
              ELSE fds' = [fds EXCEPT !.ssh =
                             IF Close(connector) # {} THEN "closed" ELSE @]
    /\ UNCHANGED <<pc, connector, ptyReq, remote, ret, io, cancel>>

\* the call returns to its caller
CAI_Done ==
    /\ pc = "return"
    /\ defers = <<>>
    /\ pc' = "done"
    /\ UNCHANGED <<connector, defers, fds, ptyReq, remote, trace, ret, io, cancel>>

(***************************************************************************)
(* SpecTerm: getTerminalSize under every COLUMNS and LINES                 *)
(***************************************************************************)
\* longest value of COLUMNS and LINES
MaxTermLen == 2

\* the characters the values are made of
TermChars == {"0", "1", "4", "x", "-"}

\* os.Getenv("COLUMNS") / os.Getenv("LINES"): the empty string when the
\* variable is unset or empty
TermValues == UNION { [1..n -> TermChars] : n \in 0..MaxTermLen }

NoSize == [none |-> TRUE]

TermIdle ==
    /\ tCols = <<>>
    /\ tLines = <<>>
    /\ tSize = NoSize

\* width, height := getTerminalSize()
T_GetTerminalSize ==
    /\ tSize = NoSize
    /\ tSize' = getTerminalSize(tCols, tLines)
    /\ UNCHANGED <<tCols, tLines>>

(***************************************************************************)
(* Host store (package store), the host file, the configuration loader     *)
(* (package config), main, and the add / edit form (EditView)              *)
(*                                                                         *)
(* A host record is [ID, Name, Host, Port, User, Tags]; the fields the     *)
(* code only copies (Identity, Proxy, Group) are left out.  The file is    *)
(* [kind, hosts]: "missing", "object" for a JSON object {"hosts": [...]},  *)
(* "array" for a JSON array of hosts, "partial" for a file cut short by a  *)
(* failed write.  ListHosts returns the map in an unspecified order, so    *)
(* the hosts of a file are kept as a set.                                  *)
(***************************************************************************)
\* number of store and form calls made in one behaviour
MaxStoreCalls == 2

\* var ErrHostNotFound / ErrHostExists
ErrHostNotFound == Err("host not found")
ErrHostExists == Err("host already exists")

\* IDs a caller passes; "" is the zero value
StoreIds == {"", "h1", "h2"}

\* values of uuid.New().String()
Uuids == {"u" \o ToString(n) : n \in 1..(MaxStoreCalls + 1)}

StoreHost(id, name, port, tags) ==
    [ID |-> id, Name |-> name, Host |-> "203.0.113.5", Port |-> port, User |-> "admin",
     Tags |-> tags]

\* models.Host{}
ZeroHost == [ID |-> "", Name |-> "", Host |-> "", Port |-> 0, User |-> "", Tags |-> <<>>]

\* hosts a caller passes to AddHost / UpdateHost
StoreInputs ==
    {StoreHost(id, name, 22, tags) :
        id \in StoreIds, name \in {"web", "db"}, tags \in {<<>>, <<"prod">>}}

\* the host a user has written into the file, or the store has saved
FileHost == StoreHost("h1", "web", 22, <<"prod">>)

MissingFile == [kind |-> "missing", hosts |-> {}]

\* the file before the first start: absent, in the form the README
\* documents, or as an earlier run of the store left it
InitialFiles ==
    { MissingFile,
      [kind |-> "object", hosts |-> {}],
      [kind |-> "object", hosts |-> {FileHost}],
      [kind |-> "array", hosts |-> {FileHost}] }

\* what os.WriteFile does: writes the data; fails before touching the
\* file; or fails after truncating it
WriteOutcomes == {"ok", "denied", "partial"}

WriteFile(file, data, w) ==
    IF w = "ok" THEN [file |-> data, err |-> Nil]
    ELSE IF w = "denied" THEN [file |-> file, err |-> Err("permission denied")]
    ELSE [file |-> [kind |-> "partial", hosts |-> {}], err |-> Err("no space left on device")]

HasId(hosts, id) == \E h \in hosts : h.ID = id

\* s.hosts[host.ID] = host
Put(hosts, host) == {h \in hosts : h.ID # host.ID} \cup {host}

\* delete(s.hosts, id)
Remove(hosts, id) == {h \in hosts : h.ID # id}

\* json.Unmarshal(data, &hosts) with hosts []models.Host
UnmarshalHosts(file) ==
    IF file.kind = "array" THEN [hosts |-> file.hosts, err |-> Nil]
    ELSE [hosts |-> {}, err |-> Err("json: cannot unmarshal")]

\* json.Unmarshal(data, &cfg) with cfg Config
UnmarshalConfig(file) ==
    IF file.kind = "object" THEN [hosts |-> file.hosts, err |-> Nil]
    ELSE [hosts |-> {}, err |-> Err("json: cannot unmarshal")]

\* config.LoadConfig("")
LoadConfig(file) ==
    IF file.kind = "missing" THEN [hosts |-> {}, err |-> Nil]
    ELSE LET u == UnmarshalConfig(file) IN
         IF u.err = Nil THEN [hosts |-> u.hosts, err |-> Nil]
         ELSE [hosts |-> {}, err |-> Err("failed to parse config")]

\* (s *FileStore) load() on a store whose map is hosts
load(hosts, file) ==
    IF file.kind = "missing" THEN [hosts |-> hosts, err |-> Nil]
    ELSE LET u == UnmarshalHosts(file) IN
         IF u.err # Nil
         THEN [hosts |-> hosts, err |-> Wrap("failed to parse store data", u.err)]
         ELSE [hosts |-> u.hosts, err |-> Nil]

\* NewFileStore(path): the error of load is dropped
NewFileStore(file) == load({}, file).hosts

\* (s *FileStore) save(): the array of ListHosts() written to the file
save(hosts, file, w) ==
    LET x == WriteFile(file, [kind |-> "array", hosts |-> hosts], w) IN
    [file |-> x.file,
     err |-> IF x.err # Nil THEN Wrap("failed to write store", x.err) ELSE Nil]

\* the result of a store call: the map and the file afterwards, the error
\* and the number of os.WriteFile calls made
StoreResult(hosts, file, err, writes) ==
    [hosts |-> hosts, file |-> file, err |-> err, writes |-> writes]

\* (s *FileStore) AddHost(host)
AddHost(hosts, file, host, uuid, w) ==
    LET h == IF host.ID = "" THEN [host EXCEPT !.ID = uuid] ELSE host IN
    IF HasId(hosts, h.ID) THEN StoreResult(hosts, file, ErrHostExists, 0)
    ELSE LET x == save(Put(hosts, h), file, w) IN
         StoreResult(Put(hosts, h), x.file, x.err, 1)

\* UpdateHost that adds the host when its ID is not in the store
UpdateHostUpsert(hosts, file, host, w) ==
    IF host.ID = "" THEN StoreResult(hosts, file, Err("host ID is required for update"), 0)
    ELSE LET x == save(Put(hosts, host), file, w) IN
         StoreResult(Put(hosts, host), x.file, x.err, 1)

\* (s *FileStore) UpdateHost(host)
UpdateHost(hosts, file, host, w) ==
    IF host.ID = "" THEN StoreResult(hosts, file, Err("host ID is required for update"), 0)
    ELSE IF ~HasId(hosts, host.ID) THEN StoreResult(hosts, file, ErrHostNotFound, 0)
    ELSE LET x == save(Put(hosts, host), file, w) IN
         StoreResult(Put(hosts, host), x.file, x.err, 1)

\* (s *FileStore) DeleteHost(id)
DeleteHost(hosts, file, id, w) ==
    IF ~HasId(hosts, id) THEN StoreResult(hosts, file, ErrHostNotFound, 0)
    ELSE LET x == save(Remove(hosts, id), file, w) IN
         StoreResult(Remove(hosts, id), x.file, x.err, 1)

\* (s *FileStore) GetHost(id)
GetHost(hosts, id) ==
    IF ~HasId(hosts, id) THEN [host |-> ZeroHost, err |-> ErrHostNotFound]
    ELSE [host |-> CHOOSE h \in hosts : h.ID = id, err |-> Nil]

DigitChar(d) ==
    CASE d = 0 -> "0" [] d = 1 -> "1" [] d = 2 -> "2" [] d = 3 -> "3" [] d = 4 -> "4"
      [] d = 5 -> "5" [] d = 6 -> "6" [] d = 7 -> "7" [] d = 8 -> "8" [] d = 9 -> "9"

\* strconv.Itoa for n >= 0
RECURSIVE Itoa(_)
Itoa(n) == IF n < 10 THEN <<DigitChar(n)>> ELSE Itoa(n \div 10) \o <<DigitChar(n % 10)>>

\* what the user types into the add form: name, host, user as strings,
\* the port field as characters
AddValues ==
    {v \in [name : {"", "web"}, host : {"", "203.0.113.5"}, user : {"", "admin"},
            port : {<<>>, <<"0">>, <<"2", "2">>, <<"x">>}] :
        Cardinality({f \in {v.name, v.host, v.user} : f = ""}) <= 1}

\* what the user appends to the name and port fields of the edit form
\* (handleInput only appends to a field)
EditTyped == [name : {"", "2"}, port : {<<>>, <<"0">>, <<"x">>}]

\* NewAddView(s)
NewAddView ==
    [mode |-> "add", host |-> ZeroHost,
     values |-> [name |-> "", host |-> "", user |-> "", port |-> <<>>],
     errors |-> {}, saved |-> FALSE]

\* NewEditView(s, hostID) for a host the store holds
NewEditView(host) ==
    [mode |-> "edit", host |-> host,
     values |-> [name |-> host.Name, host |-> host.Host, user |-> host.User,
                 port |-> Itoa(host.Port)],
     errors |-> {}, saved |-> FALSE]

\* validate with an empty port accepted
validateOptionalPort(values) ==
    (IF values.name = "" THEN {<<"name", "Name is required">>} ELSE {})
    \cup (IF values.host = "" THEN {<<"host", "Host is required">>} ELSE {})
    \cup (IF values.port # <<>> /\ ~Atoi(values.port).ok
          THEN {<<"port", "Port must be a number">>} ELSE {})
    \cup (IF values.user = "" THEN {<<"user", "User is required">>} ELSE {})

\* (v *EditView) validate(): the errors map as a set of <<field, message>>
validate(values) ==
    (IF values.name = "" THEN {<<"name", "Name is required">>} ELSE {})
    \cup (IF values.host = "" THEN {<<"host", "Host is required">>} ELSE {})
    \cup (IF values.port = <<>> THEN {<<"port", "Port is required">>}
          ELSE IF ~Atoi(values.port).ok THEN {<<"port", "Port must be a number">>}
          ELSE {})
    \cup (IF values.user = "" THEN {<<"user", "User is required">>} ELSE {})

\* (v *EditView) save() on a view whose fields hold values: the view, the
\* store and the file afterwards, the error the store returned (save drops
\* it), the writes made and the command returned
EditViewSave(view, values, hosts, file, uuid, w) ==
    LET errors == validate(values)
        v == [view EXCEPT !.values = values, !.errors = errors]
    IN
    IF errors # {}
    THEN [view |-> v, hosts |-> hosts, file |-> file, err |-> Nil, writes |-> 0,
          cmd |-> "nil"]
    ELSE LET parsed == Atoi(values.port).val
             port == IF parsed = 0 THEN 22 ELSE parsed
             host == [ID |-> "", Name |-> values.name, Host |-> values.host,
                      Port |-> port, User |-> values.user, Tags |-> <<>>]
             r == IF view.mode = "add" THEN AddHost(hosts, file, host, uuid, w)
                  ELSE UpdateHost(hosts, file, [host EXCEPT !.ID = view.host.ID], w)
         IN  [view |-> [v EXCEPT !.saved = TRUE], hosts |-> r.hosts, file |-> r.file,
              err |-> r.err, writes |-> r.writes, cmd |-> "quit"]

NoStoreCall == [none |-> TRUE]
NoHost == [none |-> TRUE]
NoView == [none |-> TRUE]

StoreIdle ==
    /\ sRun = "stopped"
    /\ sHosts = {}
    /\ sFile = MissingFile
    /\ sLast = NoStoreCall
    /\ sCalls = 0

\* the last call: what it was given, the map and the file before it, the
\* error it returned and the writes it made; for main, what LoadConfig
\* returned; for a form save, the view afterwards and its command
StoreCall(op, host, id, r) ==
    [op |-> op, host |-> host, id |-> id, before |-> sHosts, fileBefore |-> sFile,
     err |-> r.err, writes |-> r.writes, view |-> r.view, cmd |-> r.cmd,
     cfgHosts |-> r.cfgHosts]

\* the fields of a store call that is neither main nor a form save
Plain(r) ==
    [err |-> r.err, writes |-> r.writes, view |-> NoView, cmd |-> "nil", cfgHosts |-> {}]

\* main(): LoadConfig(""), exit(1) on its error, else tui.Run -> New ->
\* NewFileStore on the same path
S_Main ==
    /\ sRun # "running"
    /\ LET cfg == LoadConfig(sFile) IN
       /\ sRun' = IF cfg.err # Nil THEN "exited" ELSE "running"
       /\ sHosts' = IF cfg.err # Nil THEN {} ELSE NewFileStore(sFile)
       /\ sLast' = StoreCall("main", NoHost, "",
                             [err |-> cfg.err, writes |-> 0, view |-> NoView,
                              cmd |-> "nil", cfgHosts |-> cfg.hosts])
    /\ UNCHANGED <<sFile, sCalls>>

\* the user quits: the process and its memory are gone, the file stays
S_Quit ==
    /\ sRun = "running"
    /\ sRun' = "stopped"
    /\ sHosts' = {}
    /\ sLast' = NoStoreCall
    /\ UNCHANGED <<sFile, sCalls>>

StoreReady == sRun = "running" /\ sCalls < MaxStoreCalls

Stored(r) ==
    /\ sHosts' = r.hosts
    /\ sFile' = r.file
    /\ sCalls' = sCalls + 1
    /\ UNCHANGED sRun

FreshUuids == {u \in Uuids : ~HasId(sHosts, u)}

S_AddHost ==
    /\ StoreReady
    /\ \E host \in StoreInputs, uuid \in FreshUuids, w \in WriteOutcomes :
       \E r \in {AddHost(sHosts, sFile, host, uuid, w)} :
          /\ Stored(r)
          /\ sLast' = StoreCall("AddHost", host, host.ID, Plain(r))

S_UpdateHost ==
    /\ StoreReady
    /\ \E host \in StoreInputs, w \in WriteOutcomes :
       \E r \in {UpdateHost(sHosts, sFile, host, w)} :
          /\ Stored(r)
          /\ sLast' = StoreCall("UpdateHost", host, host.ID, Plain(r))

S_DeleteHost ==
    /\ StoreReady
    /\ \E id \in StoreIds, w \in WriteOutcomes :
       \E r \in {DeleteHost(sHosts, sFile, id, w)} :
          /\ Stored(r)
          /\ sLast' = StoreCall("DeleteHost", NoHost, id, Plain(r))

S_GetHost ==
    /\ StoreReady
    /\ \E id \in StoreIds :
       \E r \in {GetHost(sHosts, id)} :
          /\ sLast' = StoreCall("GetHost", r.host, id,
                                [err |-> r.err, writes |-> 0, view |-> NoView,
                                 cmd |-> "nil", cfgHosts |-> {}])
          /\ sCalls' = sCalls + 1
          /\ UNCHANGED <<sRun, sHosts, sFile>>

\* the add form filled in and enter pressed
F_SaveAdd ==
    /\ StoreReady
    /\ \E values \in AddValues, uuid \in FreshUuids, w \in WriteOutcomes :
       \E r \in {EditViewSave(NewAddView, values, sHosts, sFile, uuid, w)} :
          /\ Stored(r)
          /\ sLast' = StoreCall("save", NoHost, "",
                                [err |-> r.err, writes |-> r.writes, view |-> r.view,
                                 cmd |-> r.cmd, cfgHosts |-> {}])

\* the edit form opened on a host of the store, typed into and enter pressed
F_SaveEdit ==
    /\ StoreReady
    /\ \E h \in sHosts, typed \in EditTyped, uuid \in FreshUuids, w \in WriteOutcomes :
       \E view \in {NewEditView(h)} :
       \E values \in {[view.values EXCEPT !.name = @ \o typed.name,
                                          !.port = @ \o typed.port]} :
       \E r \in {EditViewSave(view, values, sHosts, sFile, uuid, w)} :
          /\ Stored(r)
          /\ sLast' = StoreCall("save", h, h.ID,
                                [err |-> r.err, writes |-> r.writes, view |-> r.view,
                                 cmd |-> r.cmd, cfgHosts |-> {}])

(***************************************************************************)
(* The App (package tui) and its ListView                                  *)
(*                                                                         *)
(* The strings the list view searches (name, host, user, tags, the filter  *)
(* text) are sequences of one-character strings; a key message is the      *)
(* string msg.String() returns.                                            *)
(***************************************************************************)
\* hosts in the list
MaxListHosts == 2

\* length of the filter text
MaxFilterLen == 2

Min(a, b) == IF a < b THEN a ELSE b
Max(a, b) == IF a > b THEN a ELSE b

\* key messages whose String() is one character long
CharKeys == {"j", "k", "/", "q", "a", "e", "d", "W", "P"}

\* key messages with a longer String()
NamedKeys == {"up", "down", "home", "end", "pageup", "pagedown", "enter", "esc", "backspace"}

Keys == CharKeys \cup NamedKeys

\* the key messages sent to a ListView on its own
ListKeys == NamedKeys \cup {"j", "k", "/", "q", "W", "P"}

\* strings.ToLower on one character
ToLowerChar(ch) ==
    CASE ch = "P" -> "p" [] ch = "W" -> "w" [] ch = "D" -> "d" [] OTHER -> ch

\* strings.ToLower
ToLower(str) == [i \in 1..Len(str) |-> ToLowerChar(str[i])]

\* strings.Contains(str, sub)
Contains(str, sub) ==
    \E i \in 0..(Len(str) - Len(sub)) :
       \A j \in 1..Len(sub) : str[i + j] = sub[j]

\* stringsContainsAny(tags, query)
stringsContainsAny(tags, query) ==
    \E t \in 1..Len(tags) : Contains(ToLower(tags[t]), query)

\* the hosts a list can show: "Web" a1 ed [prod], "db" a2 root
ListHost1 ==
    [Name |-> <<"W", "e", "b">>, Host |-> <<"a", "1">>, User |-> <<"e", "d">>,
     Tags |-> << <<"p", "r", "o", "d">> >>]

ListHost2 ==
    [Name |-> <<"d", "b">>, Host |-> <<"a", "2">>, User |-> <<"r", "o", "o", "t">>,
     Tags |-> <<>>]

\* values of s.ListHosts()
HostLists == UNION { [1..n -> {ListHost1, ListHost2}] : n \in 0..MaxListHosts }

\* the hosts of hosts, from index i on, that the filter text selects
RECURSIVE filterFrom(_, _, _)
filterFrom(hosts, i, lowerFilter) ==
    IF i > Len(hosts) THEN <<>>
    ELSE LET h == hosts[i] IN
         (IF \/ Contains(ToLower(h.Name), lowerFilter)
             \/ Contains(ToLower(h.Host), lowerFilter)
             \/ Contains(ToLower(h.User), lowerFilter)
             \/ stringsContainsAny(h.Tags, lowerFilter)
          THEN <<h>> ELSE <<>>) \o filterFrom(hosts, i + 1, lowerFilter)

\* (v *ListView) updateFiltered()
updateFiltered(v) ==
    IF v.filterText = <<>> THEN [v EXCEPT !.filtered = v.hosts]
    ELSE [v EXCEPT !.filtered = filterFrom(v.hosts, 1, ToLower(v.filterText))]

\* NewListView(s) on a store that lists hosts
NewListView(hosts) ==
    [hosts |-> hosts, filtered |-> hosts, filterText |-> <<>>, cursor |-> 0,
     filtering |-> FALSE]

\* the clamp after a shrinking list: if v.cursor >= len(v.filtered) { ... }
ClampCursor(v) ==
    IF v.cursor >= Len(v.filtered)
    THEN [v EXCEPT !.cursor = Max(0, Len(v.filtered) - 1)]
    ELSE v

\* (v *ListView) handleKey(msg): the view afterwards and the command
handleKey(v, key) ==
    IF v.filtering
    THEN [cmd |-> "nil",
          v |-> CASE key = "esc" ->
                       [updateFiltered([v EXCEPT !.filtering = FALSE, !.filterText = <<>>])
                           EXCEPT !.cursor = 0]
                  [] key = "enter" -> [v EXCEPT !.filtering = FALSE]
                  [] key = "backspace" ->
                       IF Len(v.filterText) > 0
                       THEN ClampCursor(updateFiltered(
                               [v EXCEPT !.filterText = SubSeq(@, 1, Len(@) - 1)]))
                       ELSE v
                  [] OTHER ->
                       IF key \in CharKeys
                       THEN [updateFiltered([v EXCEPT !.filterText = Append(@, key)])
                                EXCEPT !.cursor = 0]
                       ELSE v]
    ELSE [cmd |-> IF key = "q" THEN "quit" ELSE "nil",
          v |-> CASE key \in {"up", "k"} ->
                       IF v.cursor > 0 THEN [v EXCEPT !.cursor = @ - 1] ELSE v
                  [] key \in {"down", "j"} ->
                       IF v.cursor < Len(v.filtered) - 1 THEN [v EXCEPT !.cursor = @ + 1]
                       ELSE v
                  [] key = "home" -> [v EXCEPT !.cursor = 0]
                  [] key = "end" -> [v EXCEPT !.cursor = Max(0, Len(v.filtered) - 1)]
                  [] key = "pageup" -> [v EXCEPT !.cursor = Max(0, @ - 5)]
                  [] key = "pagedown" ->
                       [v EXCEPT !.cursor = Min(Len(v.filtered) - 1, @ + 5)]
                  [] key = "/" -> [v EXCEPT !.filtering = TRUE, !.filterText = <<>>]
                  [] OTHER -> v]

\* (v *ListView) Refresh() on a store that lists hosts
Refresh(v, hosts) == ClampCursor(updateFiltered([v EXCEPT !.hosts = hosts]))

\* (m *App) handleKeyMsg(msg): the App afterwards; its listView is not
\* touched and the message is not passed on
handleKeyMsg(app, key) ==
    CASE key = "q" -> [app EXCEPT !.quitting = TRUE]
      [] key = "a" -> [app EXCEPT !.view = "add"]
      [] key = "e" -> [app EXCEPT !.view = "edit"]
      [] key = "d" -> [app EXCEPT !.view = "detail"]
      [] key = "esc" -> [app EXCEPT !.view = "list"]
      [] OTHER -> app

\* New(storePath): the App
NewApp == [view |-> "list", quitting |-> FALSE]

NoKey == [none |-> TRUE]

ListIdle ==
    /\ lApp = NewApp
    /\ lView = NewListView(<<>>)
    /\ lLast = NoKey

\* the filter text stays within the bound
FitsFilter(v, key) == (v.filtering /\ key \in CharKeys) => Len(v.filterText) < MaxFilterLen

\* the program delivers a key message: (m *App) Update(tea.KeyMsg)
A_Key ==
    /\ ~lApp.quitting
    /\ \E key \in Keys :
          /\ lApp' = handleKeyMsg(lApp, key)
          /\ lLast' = [key |-> key, to |-> "App", before |-> lView, cmd |-> "nil"]
    /\ UNCHANGED lView

\* (v *ListView) Update(tea.KeyMsg) called on the view itself
L_Key ==
    /\ \E key \in ListKeys :
          /\ FitsFilter(lView, key)
          /\ \E r \in {handleKey(lView, key)} :
                /\ lView' = r.v
                /\ lLast' = [key |-> key, to |-> "ListView", before |-> lView,
                             cmd |-> r.cmd]
    /\ UNCHANGED lApp

\* (v *ListView) Refresh() after the store changed
L_Refresh ==
    /\ \E hosts \in HostLists :
          /\ lView' = Refresh(lView, hosts)
          /\ lLast' = [key |-> "", to |-> "Refresh", before |-> lView, cmd |-> "nil"]
    /\ UNCHANGED lApp

UiIdle == TermIdle /\ StoreIdle /\ ListIdle

(***************************************************************************)
(* SpecConn: calls on one Connector, and the connectivity probes           *)
(***************************************************************************)
\* number of calls made on the connector
MaxCalls == 2

\* the hosts and environments the calls are made with: no identity file
\* set, an agent that is absent or holds one key, the key files all
\* missing or all usable
ConnHosts == {h \in Hosts : h.Port # 2222 /\ h.Identity = <<>>}

ConnEnvs ==
    {e \in Envs :
        /\ e.userOK
        /\ e.agent \in {<<"unset">>, <<"keys", 1>>}
        /\ \E st \in {"missing", "ok"} : \A f \in KeyFiles : e.files[f] = st}

\* what the peer of net.Dial / net.DialTimeout("tcp", addr) can do: refuse
\* the connection (a closed port), not answer at all ("silent", an
\* unresponsive port), or accept
TcpOutcomes(addr) == IF addr[3] = 0 THEN {"refused"} ELSE {"refused", "silent", "ok"}

\* net.DialTimeout("tcp", addr, 5e9), in seconds
PingTimeout == 5

NoCall == [none |-> TRUE]

ConnIdle ==
    /\ kConnector = NewConnector
    /\ kConns = <<>>
    /\ kAgent = 0
    /\ kLast = NoCall
    /\ kCalls = 0

\* the last call: what it was given, the connector before it, how the
\* peer behaved (dial), what the call returned and did, the time bound the
\* call itself put on its dial (0 for none), and whether it has returned
Call(op, host, auth, before, dial, r) ==
    [op |-> op, host |-> host, auth |-> auth, before |-> before, dial |-> dial,
     err |-> r.err, dialed |-> r.dialed, ops |-> r.ops, left |-> r.left,
     bound |-> r.bound, returned |-> ~r.hung]

\* the caller is still inside a call that has not returned
Blocked == kLast # NoCall /\ ~kLast.returned

\* the effect of Connect / ConnectWithAuth result r on the descriptors
Established(r) ==
    /\ kConnector' = r.c
    /\ kConns' = IF r.opened # {} THEN Append(kConns, "open") ELSE kConns
    /\ kAgent' = kAgent + r.agent
    /\ kCalls' = kCalls + 1

\* c.Connect(host)
K_Connect ==
    /\ kCalls < MaxCalls
    /\ ~Blocked
    /\ \E host \in ConnHosts, env \in ConnEnvs :
       \E dial \in DialOutcomes(Addr(host.Host, host.Port)) :
       \E r \in {Connect(kConnector, host, env, dial, Len(kConns) + 1)} :
          /\ Established(r)
          /\ kLast' = Call("Connect", host, AuthMethodNone, kConnector, dial,
                           [err |-> r.err, dialed |-> r.dialed, ops |-> r.ops, left |-> 0,
                            bound |-> r.bound, hung |-> r.hung])

\* c.ConnectWithAuth(host, auth)
K_ConnectWithAuth ==
    /\ kCalls < MaxCalls
    /\ ~Blocked
    /\ \E host \in ConnHosts, env \in ConnEnvs, auth \in AuthMethods :
       \E dial \in DialOutcomes(Addr(host.Host, host.Port)) :
       \E r \in {ConnectWithAuth(kConnector, host, auth, env, dial, Len(kConns) + 1)} :
          /\ Established(r)
          /\ kLast' = Call("ConnectWithAuth", host, auth, kConnector, dial,
                           [err |-> r.err, dialed |-> r.dialed, ops |-> r.ops, left |-> 0,
                            bound |-> r.bound, hung |-> r.hung])

\* c.Close(): c.client.Close() when there is a client; the field stays set
K_Close ==
    /\ kCalls < MaxCalls
    /\ ~Blocked
    /\ kConns' = [i \in 1..Len(kConns) |->
                     IF i \in Close(kConnector) THEN "closed" ELSE kConns[i]]
    /\ kLast' = Call("Close", CHOOSE h \in ConnHosts : TRUE, AuthMethodNone, kConnector,
                     "none",
                     [err |-> IF \E i \in Close(kConnector) : kConns[i] = "closed"
                              THEN Err("use of closed network connection") ELSE Nil,
                      dialed |-> <<>>, ops |-> <<>>, left |-> 0, bound |-> 0,
                      hung |-> FALSE])
    /\ kCalls' = kCalls + 1
    /\ UNCHANGED <<kConnector, kAgent>>

\* tcpProbe leaving the socket of a successful dial open
tcpProbeNoClose(addr, tcp, timeout, wrap) ==
    [err |-> IF tcp = "ok" THEN Nil ELSE Err("connection refused"),
     dialed |-> <<addr>>, ops |-> <<>>, left |-> IF tcp = "ok" THEN 1 ELSE 0,
     agent |-> 0, bound |-> timeout, hung |-> FALSE]

\* the TCP probe shared by CheckConnection and Ping: dial addr with the
\* given timeout (0: plain net.Dial, no timeout of its own), close the
\* socket when the dial succeeded.  Against a silent peer a dial with a
\* timeout gives up when it expires; one without waits until the operating
\* system abandons the connection attempt.  left counts the sockets still
\* open, agent the agent sockets opened, ops the credential I/O performed
tcpProbe(addr, tcp, timeout, wrap) ==
    LET cause == IF tcp = "refused" THEN Err("connection refused")
                 ELSE IF timeout > 0 THEN Err("i/o timeout")
                 ELSE Err("connection timed out")
    IN  IF tcp # "ok"
        THEN [err |-> IF wrap THEN Wrap("cannot reach", cause) ELSE cause,
              dialed |-> <<addr>>, ops |-> <<>>, left |-> 0, agent |-> 0,
              bound |-> timeout, hung |-> FALSE]
        ELSE [err |-> Nil, dialed |-> <<addr>>, ops |-> <<>>, left |-> 0, agent |-> 0,
              bound |-> timeout, hung |-> FALSE]

\* CheckConnection(host) run in environment env: a fresh connector that is
\* never connected, then net.Dial("tcp", addr)
CheckConnection(host, env, tcp) ==
    tcpProbe(Addr(host.Host, host.Port), tcp, 0, TRUE)

\* Ping(host, port) run in environment env
Ping(host, port, env, tcp) ==
    tcpProbe(Addr(host, port), tcp, PingTimeout, FALSE)

K_CheckConnection ==
    /\ kCalls < MaxCalls
    /\ ~Blocked
    /\ \E host \in ConnHosts, env \in ConnEnvs :
       \E tcp \in TcpOutcomes(Addr(host.Host, host.Port)) :
       \E r \in {CheckConnection(host, env, tcp)} :
          /\ kLast' = Call("CheckConnection", host, AuthMethodNone, kConnector, tcp, r)
          /\ kAgent' = kAgent + r.agent
    /\ kCalls' = kCalls + 1
    /\ UNCHANGED <<kConnector, kConns>>

K_Ping ==
    /\ kCalls < MaxCalls
    /\ ~Blocked
    /\ \E host \in ConnHosts, env \in ConnEnvs :
       \E tcp \in TcpOutcomes(Addr(host.Host, host.Port)) :
       \E r \in {Ping(host.Host, host.Port, env, tcp)} :
          /\ kLast' = Call("Ping", host, AuthMethodNone, kConnector, tcp, r)
          /\ kAgent' = kAgent + r.agent
    /\ kCalls' = kCalls + 1
    /\ UNCHANGED <<kConnector, kConns>>

AuthIdle ==
    /\ aHost = CHOOSE h \in AuthHosts : TRUE
    /\ aEnv = CHOOSE e \in Envs : TRUE
    /\ aOut = NoResult

InitConn == ConnIdle /\ CaiIdle /\ AuthIdle /\ UiIdle

NextConn ==
    \/ K_Connect /\ UNCHANGED <<authVars, caiVars, uiVars>>
    \/ K_ConnectWithAuth /\ UNCHANGED <<authVars, caiVars, uiVars>>
    \/ K_Close /\ UNCHANGED <<authVars, caiVars, uiVars>>
    \/ K_CheckConnection /\ UNCHANGED <<authVars, caiVars, uiVars>>
    \/ K_Ping /\ UNCHANGED <<authVars, caiVars, uiVars>>

SpecConn == InitConn /\ [][NextConn]_vars

(***************************************************************************)
(* Spec: one call of ConnectAndInteract                                    *)
(***************************************************************************)
Init == CaiIdle /\ AuthIdle /\ ConnIdle /\ UiIdle

Next ==
    \/ CAI_Connect /\ UNCHANGED <<authVars, connVars, uiVars>>
    \/ CAI_NewSession /\ UNCHANGED <<authVars, connVars, uiVars>>
    \/ CAI_RequestPty /\ UNCHANGED <<authVars, connVars, uiVars>>
    \/ CAI_Shell /\ UNCHANGED <<authVars, connVars, uiVars>>
    \/ IO_RemoteWrite /\ UNCHANGED <<authVars, connVars, uiVars>>
    \/ IO_CopyOut /\ UNCHANGED <<authVars, connVars, uiVars>>
    \/ IO_RemoteEnd /\ UNCHANGED <<authVars, connVars, uiVars>>
    \/ IO_TaskDone /\ UNCHANGED <<authVars, connVars, uiVars>>
    \/ CAI_Cancel /\ UNCHANGED <<authVars, connVars, uiVars>>
    \/ CAI_Wait /\ UNCHANGED <<authVars, connVars, uiVars>>
    \/ CAI_RunDeferred /\ UNCHANGED <<authVars, connVars, uiVars>>
    \/ CAI_Done /\ UNCHANGED <<authVars, connVars, uiVars>>

Spec == Init /\ [][Next]_vars

(***************************************************************************)
(* SpecAuth: the resolver applied to every host and environment            *)
(***************************************************************************)
InitAuth ==
    /\ aHost \in AuthHosts
    /\ aEnv \in Envs
    /\ aOut = NoResult
    /\ CaiIdle
    /\ ConnIdle
    /\ UiIdle

\* buildClientConfig(host)
Resolve ==
    /\ aOut = NoResult
    /\ aOut' = [call |-> "buildClientConfig", auth |-> AuthMethodNone,
                res |-> buildClientConfig(aHost, aEnv)]
    /\ UNCHANGED <<aHost, aEnv>>
    /\ UNCHANGED <<caiVars, connVars, uiVars>>

\* buildClientConfigWithAuth(host, auth)
ResolveWithAuth ==
    /\ aOut = NoResult
    /\ \E auth \in AuthMethods :
          aOut' = [call |-> "buildClientConfigWithAuth", auth |-> auth,
                   res |-> buildClientConfigWithAuth(aHost, auth, aEnv)]
    /\ UNCHANGED <<aHost, aEnv>>
    /\ UNCHANGED <<caiVars, connVars, uiVars>>

\* buildClientConfig(host) of the earlier connector
ResolveEarlier ==
    /\ aOut = NoResult
    /\ aOut' = [call |-> "earlierBuildClientConfig", auth |-> AuthMethodNone,
                res |-> earlierBuildClientConfig(aHost, aEnv)]
    /\ UNCHANGED <<aHost, aEnv>>
    /\ UNCHANGED <<caiVars, connVars, uiVars>>

NextAuth == Resolve \/ ResolveWithAuth \/ ResolveEarlier

SpecAuth == InitAuth /\ [][NextAuth]_vars

(***************************************************************************)
(* SpecTerm                                                                *)
(***************************************************************************)
InitTerm ==
    /\ tCols \in TermValues
    /\ tLines \in TermValues
    /\ tSize = NoSize
    /\ AuthIdle /\ CaiIdle /\ ConnIdle /\ StoreIdle /\ ListIdle

NextTerm ==
    T_GetTerminalSize /\ UNCHANGED <<authVars, caiVars, connVars, storeVars, listVars>>

SpecTerm == InitTerm /\ [][NextTerm]_vars

(***************************************************************************)
(* SpecStore: starts of the program, calls on its store, form saves        *)
(***************************************************************************)
InitStore ==
    /\ sRun = "stopped"
    /\ sHosts = {}
    /\ sFile \in InitialFiles
    /\ sLast = NoStoreCall
    /\ sCalls = 0
    /\ AuthIdle /\ CaiIdle /\ ConnIdle /\ TermIdle /\ ListIdle

NextStore ==
    \/ S_Main /\ UNCHANGED <<authVars, caiVars, connVars, termVars, listVars>>
    \/ S_Quit /\ UNCHANGED <<authVars, caiVars, connVars, termVars, listVars>>
    \/ S_AddHost /\ UNCHANGED <<authVars, caiVars, connVars, termVars, listVars>>
    \/ S_UpdateHost /\ UNCHANGED <<authVars, caiVars, connVars, termVars, listVars>>
    \/ S_DeleteHost /\ UNCHANGED <<authVars, caiVars, connVars, termVars, listVars>>
    \/ S_GetHost /\ UNCHANGED <<authVars, caiVars, connVars, termVars, listVars>>
    \/ F_SaveAdd /\ UNCHANGED <<authVars, caiVars, connVars, termVars, listVars>>
    \/ F_SaveEdit /\ UNCHANGED <<authVars, caiVars, connVars, termVars, listVars>>

SpecStore == InitStore /\ [][NextStore]_vars

(***************************************************************************)
(* SpecApp: the running program, key messages delivered to the App        *)
(* SpecList: key messages and refreshes on a ListView                      *)
(***************************************************************************)
InitList ==
    /\ lApp = NewApp
    /\ \E hosts \in HostLists : lView = NewListView(hosts)
    /\ lLast = NoKey
    /\ AuthIdle /\ CaiIdle /\ ConnIdle /\ TermIdle /\ StoreIdle

NextApp == A_Key /\ UNCHANGED <<authVars, caiVars, connVars, termVars, storeVars>>

SpecApp == InitList /\ [][NextApp]_vars

NextList ==
    \/ L_Key /\ UNCHANGED <<authVars, caiVars, connVars, termVars, storeVars>>
    \/ L_Refresh /\ UNCHANGED <<authVars, caiVars, connVars, termVars, storeVars>>

SpecList == InitList /\ [][NextList]_vars

(***************************************************************************)
(* What the environment offers, stated without the resolver                *)
(***************************************************************************)
\* the agent is reachable and holds at least one signer
AgentYields(env) == env.agent[1] = "keys" /\ env.agent[2] >= 1

\* path names a readable, parsable private key
KeyYields(path, env) ==
    /\ path # <<>>
    /\ (path[1] = "~" => env.userOK)
    /\ LET file == IF path[1] = "~" THEN HomeDir \o Tail(path) ELSE path
       IN  file \in KeyFiles /\ env.files[file] = "ok"

SomeDefaultKeyYields(env) ==
    \E i \in 1..Len(DefaultKeys) : KeyYields(DefaultKeys[i], env)

Called(name) == aOut # NoResult /\ aOut.call = name

IsFileOp(ev) == ev.op \in {"expand", "read", "parse"}
IsAgentOp(ev) == ev.op \in {"agent.getenv", "agent.dial", "agent.signers"}

\* the paths whose expansion the build attempted, in order
RECURSIVE ExpandedPaths(_)
ExpandedPaths(ops) ==
    IF ops = <<>> THEN <<>>
    ELSE (IF ops[1].op = "expand" THEN <<ops[1].path>> ELSE <<>>) \o ExpandedPaths(Tail(ops))

(***************************************************************************)
(* C1: buildClientConfig fails (no authentication method available) if and *)
(* only if none of the agent, the explicit identity file and the four      *)
(* default key paths yields a parsable signer.                             *)
(***************************************************************************)
C1_ExhaustedIffNoSource ==
    Called("buildClientConfig") =>
        (aOut.res.err # Nil <=>
            ~(\/ AgentYields(aEnv)
              \/ KeyYields(aHost.Identity, aEnv)
              \/ SomeDefaultKeyYields(aEnv)))

DefaultLoopRan ==
    /\ aOut # NoResult
    /\ aHost.Identity = <<>>
    /\ \/ aOut.call = "earlierBuildClientConfig"
       \/ aOut.call = "buildClientConfigWithAuth"
            /\ aOut.auth \in {AuthMethodKeyFile, AuthMethodNone}
       \/ aOut.call = "buildClientConfig" /\ ~AgentYields(aEnv)

C10_DefaultKeysAllTried ==
    DefaultLoopRan =>
        /\ ExpandedPaths(aOut.res.ops) = DefaultKeys
        /\ \A i \in 1..Len(DefaultKeys) :
              KeyYields(DefaultKeys[i], aEnv) =>
                 /\ aOut.res.err = Nil
                 /\ \E k \in 1..Len(aOut.res.config.Auth) :
                       aOut.res.config.Auth[k].signers[1].key = HomeDir \o Tail(DefaultKeys[i])

C10_Witness ==
    /\ DefaultLoopRan
    /\ aOut.call = "buildClientConfig"
    /\ aEnv.userOK
    /\ aEnv.files[HomeDir \o Tail(DefaultKeys[1])] = "corrupt"
    /\ aEnv.files[HomeDir \o Tail(DefaultKeys[2])] = "missing"
    /\ aEnv.files[HomeDir \o Tail(DefaultKeys[3])] = "corrupt"
    /\ aEnv.files[HomeDir \o Tail(DefaultKeys[4])] = "ok"
    /\ aOut.res.err = Nil
    /\ Len(aOut.res.config.Auth) = 1

(***************************************************************************)
(* Reading the trace of a ConnectAndInteract call                          *)
(***************************************************************************)
SessionStages == <<"NewSession", "RequestPty", "Shell", "Wait", "session.Close">>

StageRank(stage) ==
    IF \E r \in 1..Len(SessionStages) : SessionStages[r] = stage
    THEN CHOOSE r \in 1..Len(SessionStages) : SessionStages[r] = stage
    ELSE 0

Happened(ev) == \E i \in 1..Len(trace) : trace[i] = ev

Returned == pc \in {"return", "done"}

(***************************************************************************)
(* C3: for a host record whose port is 0, the port in the address dialed   *)
(* by Connect, ConnectWithAuth, CheckConnection and Ping is 22.            *)
(***************************************************************************)
C3_PortZeroDials22 ==
    (/\ kLast # NoCall
     /\ kLast.op \in {"Connect", "ConnectWithAuth", "CheckConnection", "Ping"}
     /\ kLast.host.Port = 0)
        => \A i \in 1..Len(kLast.dialed) : kLast.dialed[i][3] = 22

(***************************************************************************)
(* C4: the session stages run in the order open channel, request PTY,      *)
(* start shell, wait for exit, close: a stage runs only directly after its *)
(* predecessor has succeeded, the channel is closed only after it was      *)
(* opened, and no stage runs twice.                                        *)
(***************************************************************************)
C4_StagesInOrder ==
    /\ \A i, j \in 1..Len(trace) :
          (i < j /\ StageRank(trace[i].stage) > 0 /\ StageRank(trace[j].stage) > 0)
             => StageRank(trace[i].stage) < StageRank(trace[j].stage)
    /\ \A j \in 1..Len(trace) :
          LET r == StageRank(trace[j].stage) IN
          /\ r = 1 => j > 1 /\ trace[j - 1] = Ev("connect", TRUE)
          /\ r \in 2..4 => j > 1 /\ trace[j - 1] = Ev(SessionStages[r - 1], TRUE)
          /\ r = 5 => \E i \in 1..(j - 1) : trace[i] = Ev("NewSession", TRUE)

C4_Witness ==
    /\ pc = "done"
    /\ \A r \in 1..Len(SessionStages) : Happened(Ev(SessionStages[r], TRUE))

(***************************************************************************)
(* C5: when ConnectAndInteract has returned, on whatever path, every       *)
(* session it opened and every connection it established is closed:        *)
(* nothing it opened stays open.                                           *)
(***************************************************************************)
C5_NothingLeftOpen ==
    pc = "done" =>
        /\ fds.session # "open"
        /\ fds.ssh # "open"
        /\ fds.agent = 0

(***************************************************************************)
(* C6: whenever ConnectAndInteract has opened a session channel on a       *)
(* connection, the channel is closed before the connection is, and both    *)
(* are closed when the call has returned.                                  *)
(***************************************************************************)
C6_ChannelBeforeConnection ==
    /\ \A i, j \in 1..Len(trace) :
          (trace[i].stage = "session.Close" /\ trace[j].stage = "connector.Close")
             => i < j
    /\ (pc = "done" /\ Happened(Ev("NewSession", TRUE))) =>
          /\ Happened(Ev("session.Close", TRUE))
          /\ Happened(Ev("connector.Close", TRUE))
          /\ fds.session = "closed" /\ fds.ssh = "closed"

C6_Witness ==
    /\ pc = "done"
    /\ Happened(Ev("RequestPty", FALSE))
    /\ fds.session = "closed"
    /\ fds.ssh = "closed"

(***************************************************************************)
(* C8: a failed session stage is terminal.  After a failed PTY request no  *)
(* shell is started and nothing is waited for; after a failed shell start  *)
(* nothing is waited for; the call returns the error of the failed stage.  *)
(***************************************************************************)
C8_FailedStageTerminal ==
    /\ \A j \in 1..Len(trace) : trace[j] = Ev("RequestPty", FALSE) =>
          /\ \A i \in (j + 1)..Len(trace) :
                trace[i].stage \notin {"RequestPty", "Shell", "Wait"}
          /\ Returned
          /\ ret.err[1] = "request for pseudo terminal failed"
    /\ \A j \in 1..Len(trace) : trace[j] = Ev("Shell", FALSE) =>
          /\ \A i \in (j + 1)..Len(trace) :
                trace[i].stage \notin {"RequestPty", "Shell", "Wait"}
          /\ Returned
          /\ ret.err[1] = "failed to start shell"

C8_Witness ==
    /\ pc = "done"
    /\ Happened(Ev("Shell", FALSE))
    /\ remote = NoRemote

(***************************************************************************)
(* C9: once the shell has started, ConnectAndInteract returns only after   *)
(* the remote side has ended, and its result carries the remote exit       *)
(* status: nil exactly for status 0, and for status n > 0 an exit error    *)
(* with status n.                                                          *)
(***************************************************************************)
C9_ExitStatusPropagated ==
    /\ (Returned /\ Happened(Ev("Shell", TRUE))) => remote # NoRemote
    /\ (Returned /\ remote # NoRemote /\ remote.kind = "exit") =>
          /\ ret.returned
          /\ ret.err = Nil <=> remote.status = 0
          /\ remote.status # 0 =>
                /\ Len(ret.err) = 2
                /\ ret.err[2] = ToString(remote.status)

C9_Witness ==
    /\ pc = "done"
    /\ remote = [kind |-> "exit", status |-> 7]
    /\ ret.err = <<"Process exited with status", "7">>
    /\ ptyReq.w = 100 /\ ptyReq.h = 40

(***************************************************************************)
(* C7: a Connector holds at most one live connection: every connection it  *)
(* established and that is still open is the one its client field refers   *)
(* to, so a second connect never strands an open connection.               *)
(***************************************************************************)
C7_AtMostOneLiveConnection ==
    \A i \in 1..Len(kConns) :
        kConns[i] = "open" => (IsConnected(kConnector) /\ kConnector.client.id = i)

(***************************************************************************)
(* C11: when buildClientConfig fails, the one error it returns reports     *)
(* every method that was attempted: the error of each failed attempt, the  *)
(* agent's and the key files', is carried in it, not only the last one.    *)
(***************************************************************************)
\* the messages of error e appear, in order, inside error err
Carries(err, e) ==
    \E k \in 0..(Len(err) - Len(e)) : \A i \in 1..Len(e) : err[k + i] = e[i]

C11_ErrorReportsEveryAttempt ==
    (Called("buildClientConfig") /\ aOut.res.err # Nil) =>
        \A i \in 1..Len(ResolveOrder) :
            Carries(aOut.res.err,
                    buildClientConfigWithAuth(aHost, ResolveOrder[i], aEnv).err)

(***************************************************************************)
(* Reading the last call made on the connector                             *)
(***************************************************************************)
IsConnectCall == kLast # NoCall /\ kLast.op \in {"Connect", "ConnectWithAuth"}

IsProbeCall == kLast # NoCall /\ kLast.op \in {"CheckConnection", "Ping"}

\* the method whose signers a configuration built with the events ops holds
MethodInUse(ops) ==
    IF \E i \in 1..Len(ops) : ops[i].op = "agent.signers" /\ ops[i].ok
    THEN AuthMethodSSHAgent ELSE AuthMethodKeyFile

\* the last Connect / ConnectWithAuth made again, in environment env and
\* against a peer behaving as dial
ConnectAgain(env, dial) ==
    IF kLast.op = "Connect"
    THEN Connect(kLast.before, kLast.host, env, dial, 1)
    ELSE ConnectWithAuth(kLast.before, kLast.host, kLast.auth, env, dial, 1)

\* the last probe made again, in environment env
ProbeAgain(env, tcp) ==
    IF kLast.op = "Ping"
    THEN Ping(kLast.host.Host, kLast.host.Port, env, tcp)
    ELSE CheckConnection(kLast.host, env, tcp)

(***************************************************************************)
(* C12: the error of a Connect / ConnectWithAuth that failed after dialing *)
(* tells the failure classes apart: a TCP dial failure, a handshake or     *)
(* authentication failure and a host-key rejection never give the same     *)
(* error, and the error of a handshake failure names the authentication    *)
(* method in use, so two failures with different methods in use differ.    *)
(***************************************************************************)
C12_FailureClassesDistinct ==
    (IsConnectCall /\ kLast.returned /\ kLast.err # Nil /\ kLast.dialed # <<>>) =>
        \A env \in ConnEnvs, dial \in DialOutcomes(kLast.dialed[1]) :
            LET r == ConnectAgain(env, dial) IN
            (~r.hung /\ r.dialed # <<>> /\ r.err = kLast.err) =>
                /\ dial = kLast.dial
                /\ dial = "handshake" => MethodInUse(r.ops) = MethodInUse(kLast.ops)

(***************************************************************************)
(* C13: every client configuration either connector builds, for every      *)
(* host and every auth method, carries the accept-any host-key callback,   *)
(* and a dial with a successfully built configuration to a server whose    *)
(* host key has never been seen is not rejected: it yields a client.       *)
(***************************************************************************)
C13_AcceptAnyHostKey ==
    aOut # NoResult =>
        /\ aOut.res.config # NilConfig =>
              aOut.res.config.HostKeyCallback = "InsecureIgnoreHostKey"
        /\ (aOut.res.err = Nil /\ "newkey" \in DialOutcomes(Addr(aHost.Host, aHost.Port))) =>
              LET r == dialWith(NewConnector, aHost, aOut.res, "newkey", 1) IN
              r.err = Nil /\ ~r.hung /\ IsConnected(r.c)

C13_Witness ==
    /\ Called("earlierBuildClientConfig")
    /\ aHost.Identity # <<>>
    /\ aHost.User = "admin"
    /\ aOut.res.err = Nil
    /\ aOut.res.config.HostKeyCallback = "InsecureIgnoreHostKey"
    /\ IsConnected(dialWith(NewConnector, aHost, aOut.res, "newkey", 1).c)

(***************************************************************************)
(* C14: Connect and ConnectWithAuth reject a host record whose user or     *)
(* address is empty with an error, before any network activity: no agent   *)
(* socket is dialed and no TCP address is dialed.                          *)
(***************************************************************************)
C14_EmptyUserOrHostRejected ==
    (IsConnectCall /\ (kLast.host.User = "" \/ kLast.host.Host = "")) =>
        /\ kLast.returned
        /\ kLast.err # Nil
        /\ kLast.dialed = <<>>
        /\ \A i \in 1..Len(kLast.ops) : kLast.ops[i].op # "agent.dial"

(***************************************************************************)
(* C15: a ConnectAndInteract call whose session was cancelled while        *)
(* streaming returns the session-cancelled outcome, with the channel and   *)
(* the connection closed.                                                  *)
(***************************************************************************)
SessionCancelled == Err("session cancelled")

C15_CancelReturnsCancelled ==
    (cancel /\ pc = "done") =>
        /\ ret.err = SessionCancelled
        /\ fds.session = "closed"
        /\ fds.ssh = "closed"

C17_ConnectBoundedByTimeout ==
    (kLast # NoCall /\ kLast.op = "Connect" /\ kLast.dialed # <<>>) =>
        /\ kLast.returned
        /\ kLast.bound > 0
        /\ kLast.dial = "unreachable" =>
              (kLast.err # Nil /\ kLast.err[Len(kLast.err)] = "dial tcp: connection refused")

(***************************************************************************)
(* C18: every connectivity probe, Ping and CheckConnection, returns; it    *)
(* returns an error when the port is closed or unresponsive, and it puts a *)
(* positive timeout of its own on the dial.                                *)
(***************************************************************************)
C18_ProbesBounded ==
    IsProbeCall =>
        /\ kLast.returned
        /\ kLast.dial \in {"refused", "silent"} => kLast.err # Nil
        /\ kLast.bound > 0

(***************************************************************************)
(* C19: a connectivity probe is a TCP connect-then-close.  It succeeds     *)
(* exactly when the TCP dial does, its result is the same in every         *)
(* credential environment, it dials only the address it was given and      *)
(* performs no credential or agent I/O, it leaves the caller's connector   *)
(* as it was, and when it has returned no socket it opened is still open.  *)
(***************************************************************************)
C19_ProbeIsPureTcp ==
    IsProbeCall =>
        /\ kLast.returned
        /\ kLast.err = Nil <=> kLast.dial = "ok"
        /\ \A env \in ConnEnvs :
              LET r == ProbeAgain(env, kLast.dial) IN
              r.err = kLast.err /\ r.agent = 0 /\ r.ops = <<>>
        /\ kLast.ops = <<>>
        /\ kLast.dialed = <<Addr(kLast.host.Host, kLast.host.Port)>>
        /\ kLast.left = 0
        /\ kConnector = kLast.before

C19_Witness ==
    /\ IsProbeCall
    /\ kLast.op = "CheckConnection"
    /\ kLast.dial = "ok"
    /\ kLast.err = Nil
    /\ kLast.left = 0
    /\ IsConnected(kLast.before)
    /\ kAgent = 1

(***************************************************************************)
(* C20: ConnectWithAuth(host, AuthMethodPassword) fails for every host: it *)
(* returns an error, dials nothing, performs no credential I/O and leaves  *)
(* the connector's client and config as they were.                         *)
(***************************************************************************)
C20_PasswordIsNoOp ==
    (kLast # NoCall /\ kLast.op = "ConnectWithAuth" /\ kLast.auth = AuthMethodPassword) =>
        /\ kLast.returned
        /\ kLast.err # Nil
        /\ kLast.dialed = <<>>
        /\ kLast.ops = <<>>
        /\ kConnector = kLast.before

C20_Witness ==
    /\ kLast # NoCall
    /\ kLast.op = "ConnectWithAuth"
    /\ kLast.auth = AuthMethodPassword
    /\ IsConnected(kLast.before)
    /\ kConnector = kLast.before
    /\ kLast.err = <<"failed to build client config", "password authentication not implemented">>

(***************************************************************************)
(* C21: getTerminalSize never fails, and whenever COLUMNS or LINES is      *)
(* unset, empty or not an integer the size it returns, the one used for    *)
(* the PTY request, is width 80 and height 24.                             *)
(***************************************************************************)
\* str is a decimal integer: an optional sign and at least one digit
IsInteger(str) ==
    /\ str # <<>>
    /\ LET body == IF str[1] \in {"+", "-"} THEN Tail(str) ELSE str
       IN  body # <<>> /\ \A i \in 1..Len(body) : body[i] \in Digits

C21_TerminalSizeFallback ==
    tSize # NoSize =>
        /\ getTerminalSizeImpl(tCols, tLines).err = Nil
        /\ (~IsInteger(tCols) \/ ~IsInteger(tLines)) =>
              tSize = [width |-> 80, height |-> 24]

C21_Witness ==
    /\ tSize = [width |-> 80, height |-> 24]
    /\ tCols = <<"1", "4">>
    /\ tLines = <<"4", "x">>

(***************************************************************************)
(* C22: after every sequence of Connect, ConnectWithAuth and Close calls   *)
(* on a Connector, IsConnected is true exactly when the connector holds an *)
(* active connection: its client refers to a connection that is open.     *)
(***************************************************************************)
C22_IsConnectedIffActive ==
    (~Blocked) =>
        (IsConnected(kConnector) <=>
            IF kConnector.client = NilClient THEN FALSE
            ELSE kConns[kConnector.client.id] = "open")

\* the signers a build whose events are ops took from key files: one per
\* file that parsed, in the order parsed
RECURSIVE ParsedSigners(_)
ParsedSigners(ops) ==
    IF ops = <<>> THEN <<>>
    ELSE LET rest == ParsedSigners(Tail(ops)) IN
         IF Head(ops).op = "parse" /\ Head(ops).ok
         THEN <<PublicKeys(<<[src |-> "file", key |-> Head(ops).path, idx |-> 0]>>)>> \o rest
         ELSE rest

(***************************************************************************)
(* C27: the configuration is built fresh for each method attempt and is    *)
(* not modified after it is returned: after a Connect or ConnectWithAuth   *)
(* that succeeds, the connector's configuration holds the user of this     *)
(* call's host and only the entries of the one method that succeeded       *)
(* (all of one source, none left from a failed attempt or from the         *)
(* configuration stored before); after one that fails, the stored          *)
(* configuration is the one stored before.                                 *)
(***************************************************************************)
C27_ConfigBuiltFresh ==
    (IsConnectCall /\ kLast.returned) =>
        IF kLast.err # Nil
        THEN kConnector.config = kLast.before.config
        ELSE /\ kConnector.config.User = kLast.host.User
             /\ IF MethodInUse(kLast.ops) = AuthMethodSSHAgent
                THEN /\ Len(kConnector.config.Auth) = 1
                     /\ \A i \in 1..Len(kConnector.config.Auth[1].signers) :
                           kConnector.config.Auth[1].signers[i].src = "agent"
                ELSE kConnector.config.Auth = ParsedSigners(kLast.ops)

\* a Connect that succeeds with default keys after its agent attempt failed,
\* on a connector that already stored an agent configuration
C27_Witness ==
    /\ IsConnectCall /\ kLast.returned /\ kLast.err = Nil
    /\ kLast.op = "Connect"
    /\ \E i \in 1..Len(kLast.ops) : kLast.ops[i] = EvGetenv(FALSE)
    /\ kLast.before.config # NilConfig
    /\ MethodInUse(kLast.ops) = AuthMethodKeyFile
    /\ Len(kLast.before.config.Auth) = 1
    /\ kLast.before.config.Auth[1].signers[1].src = "agent"
    /\ Len(kConnector.config.Auth) = Len(DefaultKeys)

\* the default key files by name, in the order the claim fixes
FixedKeyOrder == <<"id_ed25519", "id_rsa", "id_ecdsa", "id_dsa">>

\* one publickey entry for every file of FixedKeyOrder from index i on that
\* reads and parses in env
RECURSIVE ExpectedDefaultAuth(_, _)
ExpectedDefaultAuth(i, env) ==
    IF i > Len(FixedKeyOrder) THEN <<>>
    ELSE LET file == HomeDir \o <<".ssh", FixedKeyOrder[i]>> IN
         (IF env.userOK /\ env.files[file] = "ok"
          THEN <<PublicKeys(<<[src |-> "file", key |-> file, idx |-> 0]>>)>>
          ELSE <<>>) \o ExpectedDefaultAuth(i + 1, env)

(***************************************************************************)
(* C28: when the default key set is used, the configuration holds one      *)
(* entry for every default key file that reads and parses, and only those, *)
(* in the order ed25519, rsa, ecdsa, dsa; the method fails exactly when    *)
(* no file reads and parses.                                               *)
(***************************************************************************)
C28_DefaultKeySetExact ==
    DefaultLoopRan =>
        IF ExpectedDefaultAuth(1, aEnv) = <<>>
        THEN aOut.res.err # Nil /\ aOut.res.config = NilConfig
        ELSE /\ aOut.res.err = Nil
             /\ aOut.res.config.Auth = ExpectedDefaultAuth(1, aEnv)

\* the later connector's key method with rsa and dsa present, ed25519
\* missing and ecdsa corrupt
C28_Witness ==
    /\ DefaultLoopRan
    /\ aOut.call = "buildClientConfigWithAuth"
    /\ aEnv.userOK
    /\ aEnv.files[HomeDir \o Tail(DefaultKeys[1])] = "missing"
    /\ aEnv.files[HomeDir \o Tail(DefaultKeys[2])] = "ok"
    /\ aEnv.files[HomeDir \o Tail(DefaultKeys[3])] = "corrupt"
    /\ aEnv.files[HomeDir \o Tail(DefaultKeys[4])] = "ok"
    /\ Len(aOut.res.config.Auth) = 2
    /\ aOut.res.config.Auth[1].signers[1].key = HomeDir \o <<".ssh", "id_rsa">>
    /\ aOut.res.config.Auth[2].signers[1].key = HomeDir \o <<".ssh", "id_dsa">>

(***************************************************************************)
(* Reading the last call of SpecStore                                      *)
(***************************************************************************)
IsStoreOp(ops) == sLast # NoStoreCall /\ sLast.op \in ops

(***************************************************************************)
(* C23: the host file has one format shared by its readers and writers:    *)
(* at a start that finds a file of the documented {"hosts": [...]} form    *)
(* the program runs and the store lists the hosts of the file, and at a    *)
(* start that finds a file written by the store LoadConfig returns no      *)
(* error and the same hosts.                                               *)
(***************************************************************************)
C23_OneSharedFormat ==
    IsStoreOp({"main"}) =>
        /\ sLast.fileBefore.kind = "object" =>
              sRun = "running" /\ sHosts = sLast.fileBefore.hosts
        /\ sLast.fileBefore.kind = "array" =>
              sLast.err = Nil /\ sLast.cfgHosts = sLast.fileBefore.hosts

(***************************************************************************)
(* C24: the port field is optional with default 22: after a save of the    *)
(* add or edit form with the port field empty and name, host and user      *)
(* filled, the store holds the host of the form with port 22.              *)
(***************************************************************************)
C24_EmptyPortDefaults22 ==
    (/\ IsStoreOp({"save"})
     /\ sLast.view.values.port = <<>>
     /\ sLast.view.values.name # ""
     /\ sLast.view.values.host # ""
     /\ sLast.view.values.user # "") =>
        \E h \in sHosts :
           /\ h.Name = sLast.view.values.name
           /\ h.Host = sLast.view.values.host
           /\ h.User = sLast.view.values.user
           /\ h.Port = 22

\* the call was given an ID the store did not hold
IdMissing == ~HasId(sLast.before, sLast.id)

\* the call changed neither the map nor the file
NoEffect == sHosts = sLast.before /\ sLast.writes = 0 /\ sFile = sLast.fileBefore

(***************************************************************************)
(* C29 as stated: AddHost with an ID already in the store returns          *)
(* ErrHostExists, and UpdateHost, DeleteHost and GetHost with an ID not in *)
(* the store return ErrHostNotFound; in each case the map is unchanged and *)
(* no file write is made.                                                  *)
(***************************************************************************)
C29_SentinelErrors ==
    /\ (IsStoreOp({"AddHost"}) /\ ~IdMissing) =>
          sLast.err = ErrHostExists /\ NoEffect
    /\ (IsStoreOp({"UpdateHost", "DeleteHost", "GetHost"}) /\ IdMissing) =>
          sLast.err = ErrHostNotFound /\ NoEffect

(***************************************************************************)
(* C29 amended: as stated, except that UpdateHost with the empty ID        *)
(* returns the error "host ID is required for update" instead of           *)
(* ErrHostNotFound; the map is unchanged and no file write is made in that *)
(* case too.                                                               *)
(***************************************************************************)
C29_SentinelErrorsNonEmptyId ==
    /\ (IsStoreOp({"AddHost"}) /\ ~IdMissing) =>
          sLast.err = ErrHostExists /\ NoEffect
    /\ (IsStoreOp({"DeleteHost", "GetHost"}) /\ IdMissing) =>
          sLast.err = ErrHostNotFound /\ NoEffect
    /\ (IsStoreOp({"UpdateHost"}) /\ IdMissing) =>
          /\ sLast.err = IF sLast.id = "" THEN Err("host ID is required for update")
                         ELSE ErrHostNotFound
          /\ NoEffect

\* UpdateHost of "h2" on a store that holds "h1" and not "h2"
C29_Witness ==
    /\ IsStoreOp({"UpdateHost"})
    /\ sLast.id = "h2"
    /\ HasId(sLast.before, "h1")
    /\ sLast.err = ErrHostNotFound
    /\ sHosts = sLast.before

(***************************************************************************)
(* C30: when AddHost, UpdateHost or DeleteHost returns an error for any    *)
(* reason, a failed write of the file included, the map is the same as     *)
(* before the call.                                                        *)
(***************************************************************************)
C30_ErrorLeavesMemory ==
    (IsStoreOp({"AddHost", "UpdateHost", "DeleteHost"}) /\ sLast.err # Nil) =>
        sHosts = sLast.before

(***************************************************************************)
(* C25: in the running program, with the list shown, a down or j key       *)
(* message moves the list's cursor to the next host, staying on the last   *)
(* one, and an up or k key message moves it to the previous host, staying  *)
(* on the first one.                                                       *)
(***************************************************************************)
C25_CursorKeysMoveSelection ==
    (lLast # NoKey /\ lLast.to = "App" /\ lApp.view = "list" /\ ~lLast.before.filtering) =>
        /\ lLast.key \in {"down", "j"} =>
              lView.cursor = Min(lLast.before.cursor + 1,
                                 Max(0, Len(lLast.before.filtered) - 1))
        /\ lLast.key \in {"up", "k"} =>
              lView.cursor = Max(lLast.before.cursor - 1, 0)

\* the hosts of hosts whose name, host or user contains text without regard
\* to case, in the order of hosts; all of them for the empty text
MatchNameHostUser(hosts, text) ==
    IF text = <<>> THEN hosts
    ELSE SelectSeq(hosts, LAMBDA h :
            \/ Contains(ToLower(h.Name), ToLower(text))
            \/ Contains(ToLower(h.Host), ToLower(text))
            \/ Contains(ToLower(h.User), ToLower(text)))

(***************************************************************************)
(* C26: while filtering, after every typed character or backspace the      *)
(* filtered list is exactly the hosts whose name, host or user contains    *)
(* the filter text case-insensitively, in the order of the full host list; *)
(* the empty filter text gives the full list.                              *)
(***************************************************************************)
C26_FilterByNameHostUser ==
    (/\ lLast # NoKey
     /\ lLast.to = "ListView"
     /\ lLast.before.filtering
     /\ lLast.key \in CharKeys \cup {"backspace"}) =>
        lView.filtered = MatchNameHostUser(lView.hosts, lView.filterText)

(***************************************************************************)
(* C31: after any sequence of key messages to the ListView and Refresh     *)
(* calls, the cursor is never negative, and it is smaller than the length  *)
(* of the filtered list whenever that list is non-empty.                   *)
(***************************************************************************)
C31_CursorWithinList ==
    /\ lView.cursor >= 0
    /\ lView.filtered # <<>> => lView.cursor < Len(lView.filtered)

(***************************************************************************)
(* C32: when Connect or ConnectWithAuth returns an error, from the         *)
(* configuration build or from the dial, the connector's client and config *)
(* fields are what they were before the call; a connector that was fresh   *)
(* before the call is still without a client, and Close on a connector     *)
(* without a client returns nil and leaves no connection closed.           *)
(***************************************************************************)
C32_FailedConnectKeepsFields ==
    /\ (IsConnectCall /\ kLast.returned /\ kLast.err # Nil) =>
          /\ kConnector.client = kLast.before.client
          /\ kConnector.config = kLast.before.config
          /\ kLast.before = NewConnector =>
                ~IsConnected(kConnector) /\ Close(kConnector) = {}
    /\ (kLast # NoCall /\ kLast.op = "Close" /\ kLast.before.client = NilClient) =>
          /\ kLast.err = Nil
          /\ \A i \in 1..Len(kConns) : kConns[i] # "closed"

\* a dial that fails on a connector that already holds a client and a
\* configuration
C32_Witness ==
    /\ IsConnectCall /\ kLast.returned
    /\ kLast.err # Nil
    /\ kLast.dialed # <<>>
    /\ kLast.before.client # NilClient
    /\ kConnector = kLast.before
    /\ kConns = <<"open">>

(***************************************************************************)
(* C33: a save of the edit form for an existing host replaces the record   *)
(* with the same ID, leaves the number of hosts unchanged, and keeps the   *)
(* value of every field the form does not expose, the host's tags.         *)
(***************************************************************************)
C33_EditKeepsHiddenFields ==
    (IsStoreOp({"save"}) /\ sLast.view.mode = "edit" /\ sLast.view.saved) =>
        /\ Cardinality(sHosts) = Cardinality(sLast.before)
        /\ \E h \in sHosts :
              /\ h.ID = sLast.view.host.ID
              /\ h.Name = sLast.view.values.name
              /\ h.Tags = sLast.view.host.Tags

\* a value of the form fails validation
Invalid(values) ==
    \/ values.name = ""
    \/ values.host = ""
    \/ values.user = ""
    \/ ~IsInteger(values.port)

=============================================================================
